---- MODULE Spec2Model ----
(***************************************************************************)
(* Arrow: transactional append-only storage guarded by a single-bit writer *)
(* flag.                                                                   *)
(*                                                                         *)
(* The module holds state machines over one storage (file, len, flag), a   *)
(* log buffer, a byte vector, a spin lock and an atomic vector:            *)
(*   Spec     the append / read transactions (append_txn, commit, abort,   *)
(*            drop, read_txn, read, read_exact) that page.rs and the       *)
(*            benchmark call; the lock underneath is lock.rs.              *)
(*   SpecPar  storage.rs as it stands: writers taking the lock and calling *)
(*            Storage::append, readers polling Storage::read_at, as the    *)
(*            test concurrency::parallel_reads_and_writes does.            *)
(*   SpecLife storage.rs as it stands, one owner: append, read_at,         *)
(*            read_exact_at, truncate, sync, close and open, with failing  *)
(*            file-system calls and crashes; create, open and destroy on   *)
(*            the path.                                                    *)
(*   SpecGuard Storage::append called by threads that each hold a guard of *)
(*            some MutLock, not necessarily the same one.                  *)
(*   SpecBuf  buf.rs: one LogBuf and its iterator.                         *)
(*   SpecCodec log.rs: Log::write and Log::read on a Vec<u8>.              *)
(*   SpecEnd  the append transaction with failing sync_data and set_len,   *)
(*            and Storage::truncate between transactions; SpecEndFair is   *)
(*            SpecEnd with every thread running on.                        *)
(*   SpecSpin lock.rs: tests::state_machine_test, workers on spin_acquire; *)
(*            SpecSpinFair is SpecSpin with every thread scheduled.        *)
(*   SpecVec  avec.rs: AtomicVec with pushing threads and a reader.        *)
(***************************************************************************)
EXTENDS Integers, Sequences, FiniteSets, TLC

\* ------------------------------------------------------------ bounds
NWriters == 2
MaxFile == 2
MaxAppend == 2
NRecords == 3
RecordSize == 2
MaxBuf == 2
MaxDisk == 3
NLocks == 2
MaxSeq == 2
MaxData == 1
MaxRecs == 2
MaxLogs == 2
MAX_THREADS == 3
VecCap == 2
NPushers == 2

Writers == 1..NWriters
Locks == 1..NLocks
Threads == 0..(MAX_THREADS - 1)
Pushers == 1..NPushers
\* The values pushed, and what a slot of the allocation holds before a write.
Elems == {1, 2}
Uninit == -1
\* Read transactions write no shared state, so one reader thread sees all that
\* any reader can see.
Readers == {"r1"}
\* Byte values the callers write; 0 is what the OS puts in a hole.
Bytes == {1, 2}
Payloads == UNION {[1..n -> Bytes] : n \in 1..MaxAppend}

VARIABLES
    file,       \* Storage.file: the bytes on disk, Len(file) is the file length
    len,        \* Storage.len: AtomicU64, the committed length
    flag,       \* RawLock.0: AtomicBool, the exclusive writer flag
    wpc,        \* append side: where each writer thread stands
    wtxn,       \* append side: each writer's transaction (start, next, ...)
    wret,       \* append side: what append_txn returned ("some2": on a retry)
    rpc,        \* read side: where each reader thread stands
    rtxn,       \* read side: each reader's transaction (snap, next, ...)
    rgot,       \* read side: result of the reader's last read / read_exact
    committed,  \* history: concatenation of the committed payloads
    rolledAt,   \* history: start of the first transaction rolled back, or -1
    index,      \* parallel test: the shared AtomicUsize
    ppc,        \* parallel test: where each writer thread stands
    ploc,       \* parallel test: writer locals (next_index, len, written)
    qpc,        \* parallel test: where each reader thread stands
    qloc,       \* parallel test: reader locals (index, dst, buf)
    main,       \* parallel test: the spawning thread, after the join
    life,       \* lifecycle: "open" (a Storage value exists), "closed", "crashed", "gone"
    op,         \* lifecycle: the Storage call in progress and its locals
    res,        \* lifecycle: what the last completed call returned
    expect,     \* history: the bytes the successful calls of the handle committed
    hist,       \* history: how the handle was made, and whether a write failed since
    cur,        \* lifecycle: the caller's read loop (offset, bytes left, bytes so far)
    locks,      \* guarded appends: the flag of each MutLock
    gpc,        \* guarded appends: where each caller stands
    gloc,       \* guarded appends: caller locals (lock of the guard, buf, len, written)
    used,       \* history: the locks a guard was ever taken from
    lbuf,       \* log buffer: the LogBuf (count, memory, last) and its capacity
    lres,       \* log buffer: the LogBuf call that returned last, and what it returned
                \* (of reinitialize: the buffer as it was called on)
    it,         \* log buffer: the LogVecIter in scope (bytes left, logs returned)
    hst,        \* history: whether the buffer holds appended logs only, the logs
                \* appended since it was last empty while it does, and what last
                \* was at the clear that its first log follows
    vec,        \* codec: the Vec<u8> logs are written into
    wr,         \* history: the logs written into vec, the bytes cut off its end since
    rd,         \* codec: the last Log::read (how many before it, its input, its return)
    durable,    \* durability: the bytes of the file as of the last File::sync_data
    ended,      \* history: how the transaction ended whose guard was dropped last
    LOCK,       \* spin lock: the static LOCK of lock.rs's state_machine_test
    DATA,       \* spin lock: the static mut DATA, a Vec<usize>
    spc,        \* spin lock: where each worker thread stands
    sloc,       \* spin lock: the length a worker's DATA.push has read
    smain,      \* spin lock: where the test's main thread stands
    spun,       \* history: whether a spin_acquire has found the lock taken
    vlock,      \* atomic vector: AtomicVec.lock, the flag of its RawLock
    vlen,       \* atomic vector: AtomicVec.len, an AtomicUsize
    vmem,       \* atomic vector: the cap slots behind AtomicVec.ptr
    push,       \* atomic vector: each pushing thread's call of push (position, elem, len, return)
    slice,      \* atomic vector: the reading thread's deref and get (length loaded, index, return)
    pushed      \* history: the elements whose push has published its length, in order

storeVars == <<file, len, flag>>
txnVars == <<wpc, wtxn, wret, rpc, rtxn, rgot, committed, rolledAt>>
parVars == <<index, ppc, ploc, qpc, qloc, main>>
lifeVars == <<life, op, res, expect, hist, cur>>
guardVars == <<locks, gpc, gloc, used>>
\* What the transaction, parallel-test and lifecycle machines never touch.
bufVars == <<lbuf, lres, it, hst>>
codecVars == <<vec, wr, rd>>
endVars == <<durable, ended>>
spinVars == <<LOCK, DATA, spc, sloc, smain, spun>>
vecVars == <<vlock, vlen, vmem, push, slice, pushed>>
auxVars == <<guardVars, bufVars, codecVars, endVars, spinVars, vecVars>>
vars == <<file, len, flag, wpc, wtxn, wret, rpc, rtxn, rgot, committed, rolledAt,
          index, ppc, ploc, qpc, qloc, main, life, op, res, expect, hist, cur,
          locks, gpc, gloc, used, lbuf, lres, it, hst, vec, wr, rd,
          durable, ended,
          LOCK, DATA, spc, sloc, smain, spun,
          vlock, vlen, vmem, push, slice, pushed>>

\* ------------------------------------------------------------ helpers
\* Option<T>: None, Some(v).
None == <<>>
Some(v) == <<v>>

Min(a, b) == IF a < b THEN a ELSE b
Max(a, b) == IF a > b THEN a ELSE b

\* u64::saturating_sub
SaturatingSub(a, b) == IF a > b THEN a - b ELSE 0

\* Faulty variant of the positional write: the offset is ignored (written from 0).
WriteAt_IgnoresOffset(f, off, b) ==
    [i \in 1..Max(Len(f), Len(b)) |-> IF i <= Len(b) THEN b[i] ELSE f[i]]

\* File::write_all_at(buf, offset): positional write, extends the file.
WriteAt(f, off, b) ==
    [i \in 1..Max(Len(f), off + Len(b)) |->
        IF i > off /\ i <= off + Len(b) THEN b[i - off]
        ELSE IF i <= Len(f) THEN f[i] ELSE 0]

\* Faulty variant of set_len: the file keeps its length.
SetLen_Keeps(f, n) == f

\* File::set_len(n): cut, or extend with zeros.
SetLen(f, n) == [i \in 1..n |-> IF i <= Len(f) THEN f[i] ELSE 0]

\* Faulty variant of the positional read: the offset is ignored (read from 0).
FileBytes_FromStart(f, off, n) == [i \in 1..Min(n, Len(f)) |-> f[i]]

\* File::read_at(dst, offset) for n bytes: the bytes at [offset, offset+n), cut
\* at the end of the file.
FileBytes(f, off, n) == [i \in 1..Min(n, SaturatingSub(Len(f), off)) |-> f[off + i]]

\* ------------------------------------------------------------ lock.rs
\* RawLock::new
NewLock == FALSE

\* Faulty variants of swap(true, Acquire): a load that stores nothing; a toggle.
SwapStores_Keeps(old) == old
SwapStores_Toggles(old) == ~old

\* RawLock::try_acquire: swap(true, Acquire) stores true whatever was there ...
SwapStores(old) == TRUE

\* Faulty variants of the test on the swapped-out value: ignored; inverted.
TryAcquireOk_Always(old) == TRUE
TryAcquireOk_Inverted(old) == old

\* ... and the guard is returned iff the value swapped out was false.
TryAcquireOk(old) == ~old

\* Faulty variant of the guard's drop: the flag is left set.
GuardDropStores_Leaks == TRUE

\* RawLockGuard::drop: store(false, Release)
GuardDropStores == FALSE

\* ------------------------------------------------------------ transactions
NoTxn == [start |-> 0, next |-> 0, wrote |-> <<>>, appends |-> 0, how |-> "none"]
NoRead == [snap |-> 0, next |-> 0, from |-> 0, begun |-> 0, rolledAt |-> -1]
NoGot == [kind |-> "none", off |-> 0, data |-> <<>>, grown |-> FALSE]

\* Storage::append_txn: try to take the writer flag; absent on contention.
AppendTxn(w) ==
    /\ wpc[w] = "idle"
    /\ wret[w] \in {"-", "absent"}
    /\ flag' = SwapStores(flag)
    /\ IF TryAcquireOk(flag)
         THEN /\ wpc' = [wpc EXCEPT ![w] = "acquired"]
              /\ wret' = [wret EXCEPT ![w] = IF @ = "absent" THEN "some2" ELSE "some"]
         ELSE /\ wret' = [wret EXCEPT ![w] = "absent"]
              /\ UNCHANGED wpc
    /\ UNCHANGED <<file, len, wtxn, rpc, rtxn, rgot, committed, rolledAt, parVars, lifeVars,
                   auxVars>>

\* append_txn, after the flag is taken: start = next = len (acquire load).
TxnBegin(w) ==
    /\ wpc[w] = "acquired"
    /\ wtxn' = [wtxn EXCEPT ![w] = [start |-> len, next |-> len, wrote |-> <<>>,
                                    appends |-> 0, how |-> "live"]]
    /\ wpc' = [wpc EXCEPT ![w] = "open"]
    /\ UNCHANGED <<storeVars, wret, rpc, rtxn, rgot, committed, rolledAt, parVars, lifeVars,
                   auxVars>>

\* AppendTxn::append(bytes): positional write at next, next advances, len does not.
TxnAppend(w, b) ==
    /\ wpc[w] = "open"
    /\ wtxn[w].next + Len(b) <= MaxFile
    /\ file' = WriteAt(file, wtxn[w].next, b)
    /\ wtxn' = [wtxn EXCEPT ![w].next = @ + Len(b),
                            ![w].wrote = @ \o b,
                            ![w].appends = Min(@ + 1, 2)]
    /\ UNCHANGED <<len, flag, wpc, wret, rpc, rtxn, rgot, committed, rolledAt, parVars, lifeVars,
                   auxVars>>

\* AppendTxn::commit(flush), steps 1 and 2: nothing written completes the
\* transaction at once; otherwise data-sync when asked, then publish.
TxnCommit(w, flush) ==
    /\ wpc[w] = "open"
    /\ IF wtxn[w].start = wtxn[w].next
         THEN /\ wpc' = [wpc EXCEPT ![w] = "release"]
              /\ wtxn' = [wtxn EXCEPT ![w].how = "noop"]
         ELSE /\ wpc' = [wpc EXCEPT ![w] = IF flush THEN "sync" ELSE "publish"]
              /\ UNCHANGED wtxn
    /\ UNCHANGED <<storeVars, wret, rpc, rtxn, rgot, committed, rolledAt, parVars, lifeVars,
                   auxVars>>

\* AppendTxn::commit(flush = true), step 2: File::sync_data.
TxnSync(w) ==
    /\ wpc[w] = "sync"
    /\ wpc' = [wpc EXCEPT ![w] = "publish"]
    /\ UNCHANGED <<storeVars, wtxn, wret, rpc, rtxn, rgot, committed, rolledAt, parVars, lifeVars,
                   auxVars>>

\* AppendTxn::commit, steps 3 and 4: len.store(next, Release), mark complete.
TxnPublish(w) ==
    /\ wpc[w] = "publish"
    /\ len' = wtxn[w].next
    /\ committed' = committed \o wtxn[w].wrote
    /\ wtxn' = [wtxn EXCEPT ![w].how = "committed"]
    /\ wpc' = [wpc EXCEPT ![w] = "release"]
    /\ UNCHANGED <<file, flag, wret, rpc, rtxn, rgot, rolledAt, parVars, lifeVars, auxVars>>

\* Rollback shared by abort and drop: truncate back to start if bytes were written.
Rollback(w, how) ==
    /\ wpc[w] = "open"
    /\ file' = IF wtxn[w].next > wtxn[w].start THEN SetLen(file, wtxn[w].start)
               ELSE file
    /\ wtxn' = [wtxn EXCEPT ![w].how = how]
    /\ wpc' = [wpc EXCEPT ![w] = "release"]
    /\ rolledAt' = IF wtxn[w].next > wtxn[w].start /\ rolledAt = -1
                   THEN wtxn[w].start ELSE rolledAt
    /\ UNCHANGED <<len, flag, wret, rpc, rtxn, rgot, committed, parVars, lifeVars, auxVars>>

\* AppendTxn::abort
TxnAbort(w) == Rollback(w, "aborted")

\* AppendTxn dropped without commit or abort: the destructor rolls back.
TxnDrop(w) == Rollback(w, "dropped")

\* End of every transaction: the guard goes out of scope, RawLockGuard::drop.
TxnRelease(w) ==
    /\ wpc[w] = "release"
    /\ flag' = GuardDropStores
    /\ wpc' = [wpc EXCEPT ![w] = "idle"]
    /\ wret' = [wret EXCEPT ![w] = "-"]
    /\ wtxn' = [wtxn EXCEPT ![w] = NoTxn]
    /\ UNCHANGED <<file, len, rpc, rtxn, rgot, committed, rolledAt, parVars, lifeVars, auxVars>>

\* Faulty variant of read_txn: absent while the writer flag is set.
ReadTxn_Contends(r, offset) ==
    /\ rpc[r] = "idle"
    /\ IF offset >= len \/ flag
         THEN /\ rgot' = [rgot EXCEPT ![r] = [NoGot EXCEPT !.kind = "absent", !.off = offset]]
              /\ UNCHANGED <<rpc, rtxn>>
         ELSE /\ rtxn' = [rtxn EXCEPT ![r] = [snap |-> len, next |-> offset,
                                              from |-> offset, begun |-> len,
                                              rolledAt |-> rolledAt]]
              /\ rpc' = [rpc EXCEPT ![r] = "open"]
              /\ rgot' = [rgot EXCEPT ![r] = NoGot]
    /\ UNCHANGED <<storeVars, wpc, wtxn, wret, committed, rolledAt, parVars, lifeVars, auxVars>>

\* Storage::read_txn(offset): one acquire load of len; absent when offset >= len.
ReadTxn(r, offset) ==
    /\ rpc[r] = "idle"
    /\ IF offset >= len
         THEN /\ rgot' = [rgot EXCEPT ![r] = [NoGot EXCEPT !.kind = "absent", !.off = offset]]
              /\ UNCHANGED <<rpc, rtxn>>
         ELSE /\ rtxn' = [rtxn EXCEPT ![r] = [snap |-> len, next |-> offset,
                                              from |-> offset, begun |-> len,
                                              rolledAt |-> rolledAt]]
              /\ rpc' = [rpc EXCEPT ![r] = "open"]
              /\ rgot' = [rgot EXCEPT ![r] = NoGot]
    /\ UNCHANGED <<storeVars, wpc, wtxn, wret, committed, rolledAt, parVars, lifeVars, auxVars>>

\* ReadTxn::remaining: len_snapshot - next, saturated at zero.
Remaining(t) == SaturatingSub(t.snap, t.next)

\* Faulty variant of the clamp: the bound is the current len, loaded again.
ReadSize_Reloads(t, n) == Min(n, SaturatingSub(len, t.next))

\* ReadTxn::read clamps the read range to [next, len_snapshot).
ReadSize(t, n) == Min(n, Remaining(t))

\* ReadTxn::read(buf), buf of n bytes: the OS may return fewer bytes (k) than
\* the clamped range; next advances by the bytes read.
TxnRead(r, n, k) ==
    /\ rpc[r] = "open"
    /\ LET m == ReadSize(rtxn[r], n)
           data == FileBytes(file, rtxn[r].next, Min(k, m))
       IN /\ (m > 0) => (k >= 1 /\ k <= m)
          /\ (m = 0) => (k = 0)
          /\ rgot' = [rgot EXCEPT ![r] = [kind |-> "read", off |-> rtxn[r].next,
                                          data |-> data, grown |-> len > rtxn[r].begun]]
          /\ rtxn' = [rtxn EXCEPT ![r].next = @ + Len(data)]
    /\ UNCHANGED <<storeVars, wpc, wtxn, wret, rpc, committed, rolledAt, parVars, lifeVars,
                   auxVars>>

\* ReadTxn::read_exact(buf), buf of n bytes: unexpected-eof when fewer than n
\* bytes remain in the snapshot, else exactly n bytes.
TxnReadExact(r, n) ==
    /\ rpc[r] = "open"
    /\ IF Remaining(rtxn[r]) < n
         THEN /\ rgot' = [rgot EXCEPT ![r] = [kind |-> "eof", off |-> rtxn[r].next,
                                              data |-> <<>>, grown |-> len > rtxn[r].begun]]
              /\ UNCHANGED rtxn
         ELSE LET data == FileBytes(file, rtxn[r].next, n)
              IN /\ rgot' = [rgot EXCEPT ![r] =
                                [kind |-> IF Len(data) = n THEN "exact" ELSE "eof",
                                 off |-> rtxn[r].next, data |-> data, grown |-> len > rtxn[r].begun]]
                 /\ rtxn' = [rtxn EXCEPT ![r].next = @ + Len(data)]
    /\ UNCHANGED <<storeVars, wpc, wtxn, wret, rpc, committed, rolledAt, parVars, lifeVars,
                   auxVars>>

\* ReadTxn::commit: releases the transaction (returns next).
ReadCommit(r) ==
    /\ rpc[r] = "open"
    /\ rpc' = [rpc EXCEPT ![r] = "idle"]
    /\ rtxn' = [rtxn EXCEPT ![r] = NoRead]
    /\ rgot' = [rgot EXCEPT ![r] = NoGot]
    /\ UNCHANGED <<storeVars, wpc, wtxn, wret, committed, rolledAt, parVars, lifeVars, auxVars>>

\* ------------------------------------------------------------ Spec
\* Storage::create: empty file, len = 0, flag clear; no transaction yet.
StoreInit ==
    /\ file = <<>>
    /\ len = 0
    /\ flag = NewLock

ParIdle ==
    /\ index = 0
    /\ ppc = [w \in Writers |-> "off"]
    /\ ploc = [w \in Writers |-> [next_index |-> 0, len |-> 0, written |-> 0]]
    /\ qpc = [r \in Readers |-> "off"]
    /\ qloc = [r \in Readers |-> [index |-> 0, dst |-> 0, buf |-> <<>>]]
    /\ main = [pc |-> "off", buf |-> <<>>]

TxnIdle ==
    /\ wpc = [w \in Writers |-> "idle"]
    /\ wtxn = [w \in Writers |-> NoTxn]
    /\ wret = [w \in Writers |-> "-"]
    /\ rpc = [r \in Readers |-> "idle"]
    /\ rtxn = [r \in Readers |-> NoRead]
    /\ rgot = [r \in Readers |-> NoGot]
    /\ committed = <<>>
    /\ rolledAt = -1

\* No Storage call in progress, none returned yet, no read loop running.
NoOp == [name |-> "none", pc |-> "idle", buf |-> <<>>, len |-> 0, written |-> 0, arg |-> 0]
NoRes == [name |-> "none", ret |-> "-", pre |-> 0, offset |-> 0, want |-> 0, dst |-> 0,
          data |-> <<>>]
NoCur == [on |-> FALSE, offset |-> 0, left |-> 0, want |-> 0, acc |-> <<>>]

\* The Storage value Storage::create returned: nothing called on it yet.
LifeInit ==
    /\ life = "open"
    /\ op = NoOp
    /\ res = NoRes
    /\ expect = <<>>
    /\ hist = [via |-> "create", failed |-> FALSE, adopted |-> 0]
    /\ cur = NoCur

\* No caller holds a guard.
NoGuard == [lock |-> 0, buf |-> <<>>, len |-> 0, written |-> 0]

GuardIdle ==
    /\ locks = [l \in Locks |-> NewLock]
    /\ gpc = [w \in Writers |-> "off"]
    /\ gloc = [w \in Writers |-> NoGuard]
    /\ used = {}

\* The log buffer is not in use.
BufIdle ==
    /\ lbuf = [count |-> 0, memory |-> <<>>, last |-> <<>>, cap |-> 0]
    /\ lres = [name |-> "none", ret |-> FALSE, out |-> lbuf]
    /\ it = [on |-> FALSE, rest |-> <<>>, out |-> <<>>, ended |-> FALSE]
    /\ hst = [recs |-> <<>>, pure |-> TRUE, was |-> <<>>]

\* No log is written or read.
CodecIdle ==
    /\ vec = <<>>
    /\ wr = [logs |-> <<>>, cut |-> 0]
    /\ rd = [on |-> FALSE, n |-> 0, in |-> <<>>, ret |-> <<>>]

\* Nothing was synced, no transaction ended.
EndIdle ==
    /\ durable = <<>>
    /\ ended = "none"

\* state_machine_test of lock.rs before its first spawn: LOCK is new, DATA is empty.
SpinIdle ==
    /\ LOCK = FALSE
    /\ DATA = <<>>
    /\ spc = [t \in Threads |-> "unborn"]
    /\ sloc = [t \in Threads |-> 0]
    /\ smain = "spawn"
    /\ spun = FALSE

\* AtomicVec::with_capacity(VecCap): nothing pushed, the lock new, no call running.
VecIdle ==
    /\ vlock = FALSE
    /\ vlen = 0
    /\ vmem = [i \in 0..(VecCap - 1) |-> Uninit]
    /\ push = [p \in Pushers |-> [pc |-> "idle", elem |-> 0, len |-> 0, ret |-> "-"]]
    /\ slice = [pc |-> "idle", len |-> 0, idx |-> 0, ret |-> None]
    /\ pushed = <<>>

\* The machines that are not running.
AuxIdle == GuardIdle /\ BufIdle /\ CodecIdle /\ EndIdle /\ SpinIdle /\ VecIdle

Init == StoreInit /\ TxnIdle /\ ParIdle /\ LifeInit /\ AuxIdle

Next ==
    \/ \E w \in Writers : AppendTxn(w)
    \/ \E w \in Writers : TxnBegin(w)
    \/ \E w \in Writers, b \in Payloads : TxnAppend(w, b)
    \/ \E w \in Writers, flush \in BOOLEAN : TxnCommit(w, flush)
    \/ \E w \in Writers : TxnSync(w)
    \/ \E w \in Writers : TxnPublish(w)
    \/ \E w \in Writers : TxnAbort(w)
    \/ \E w \in Writers : TxnDrop(w)
    \/ \E w \in Writers : TxnRelease(w)
    \/ \E r \in Readers, o \in 0..(MaxFile + 1) : ReadTxn(r, o)
    \/ \E r \in Readers, n \in 0..MaxBuf, k \in 0..MaxBuf : TxnRead(r, n, k)
    \/ \E r \in Readers, n \in 0..MaxBuf : TxnReadExact(r, n)
    \/ \E r \in Readers : ReadCommit(r)

Spec == Init /\ [][Next]_vars

\* ------------------------------------------------------------ storage.rs
\* Faulty variant of size_read_buf: the buffer is not clamped to len.
SizeReadBuf_NoClamp(l, offset, n) == n

\* Storage::size_read_buf, given the len it loaded: how many bytes of a buffer
\* of n bytes may be read at offset.
SizeReadBuf(l, offset, n) ==
    IF n = 0 THEN 0
    ELSE LET remaining == SaturatingSub(l, offset)
         IN IF remaining = 0 THEN 0 ELSE Min(n, remaining)

\* Faulty variant of new_len: the loaded len is left out of the sum.
NewLen_Forgets(l, n) == n

\* Storage::append: new_len = len + buf.len()
NewLen(l, n) == l + n

\* u128::to_be_bytes, at the width of a record: big-endian, base 256.
RECURSIVE Pow256(_)
Pow256(k) == IF k = 0 THEN 1 ELSE 256 * Pow256(k - 1)
ToBeBytes(v, n) == [k \in 1..n |-> (v \div Pow256(n - k)) % 256]

\* The test's data: (1..=N).map(u128::to_be_bytes), indexed from 0.
Data(i) == ToBeBytes(i + 1, RecordSize)

\* data[0] ++ data[1] ++ ... ++ data[N-1]
RECURSIVE ConcatData(_)
ConcatData(n) == IF n = 0 THEN <<>> ELSE ConcatData(n - 1) \o Data(n - 1)

\* Writer loop: lock.try_lock(), continue when the lock is held.
P_TryLock(w) ==
    /\ ppc[w] = "lock"
    /\ flag' = SwapStores(flag)
    /\ ppc' = [ppc EXCEPT ![w] = IF TryAcquireOk(flag) THEN "fetch" ELSE "lock"]
    /\ UNCHANGED <<file, len, txnVars, lifeVars, index, ploc, qpc, qloc, main, auxVars>>

\* Writer loop: index.fetch_add(1), break when the data is exhausted.
P_FetchAdd(w) ==
    /\ ppc[w] = "fetch"
    /\ index' = index + 1
    /\ ploc' = [ploc EXCEPT ![w].next_index = index]
    /\ ppc' = [ppc EXCEPT ![w] = IF index >= NRecords THEN "exit" ELSE "append"]
    /\ UNCHANGED <<storeVars, txnVars, lifeVars, qpc, qloc, main, auxVars>>

\* Faulty variant of Storage::append: the new len is stored before the bytes are written.
P_LoadLen_StoresFirst(w) ==
    /\ ppc[w] = "append"
    /\ ploc' = [ploc EXCEPT ![w].len = len, ![w].written = 0]
    /\ len' = NewLen(len, Len(Data(ploc[w].next_index)))
    /\ ppc' = [ppc EXCEPT ![w] = "write"]
    /\ UNCHANGED <<file, flag, txnVars, lifeVars, index, qpc, qloc, main, auxVars>>

\* Storage::append: return early on an empty buffer, else load len.
P_LoadLen(w) ==
    /\ ppc[w] = "append"
    /\ IF Len(Data(ploc[w].next_index)) = 0
         THEN /\ ppc' = [ppc EXCEPT ![w] = "unlock"]
              /\ UNCHANGED ploc
         ELSE /\ ploc' = [ploc EXCEPT ![w].len = len, ![w].written = 0]
              /\ ppc' = [ppc EXCEPT ![w] = "write"]
    /\ UNCHANGED <<storeVars, txnVars, lifeVars, index, qpc, qloc, main, auxVars>>

\* Storage::append: file.write_all_at(buf, len), which writes k more bytes at a
\* time until the buffer is out.
P_Write(w, k) ==
    /\ ppc[w] = "write"
    /\ LET buf == Data(ploc[w].next_index)
           done == ploc[w].written
       IN /\ k >= 1 /\ done + k <= Len(buf)
          /\ file' = WriteAt(file, ploc[w].len + done, SubSeq(buf, done + 1, done + k))
          /\ ploc' = [ploc EXCEPT ![w].written = done + k]
          /\ ppc' = [ppc EXCEPT ![w] = IF done + k = Len(buf) THEN "store" ELSE "write"]
    /\ UNCHANGED <<len, flag, txnVars, lifeVars, index, qpc, qloc, main, auxVars>>

\* Storage::append: len.store(new_len, Release)
P_StoreLen(w) ==
    /\ ppc[w] = "store"
    /\ len' = NewLen(ploc[w].len, Len(Data(ploc[w].next_index)))
    /\ ppc' = [ppc EXCEPT ![w] = "unlock"]
    /\ UNCHANGED <<file, flag, txnVars, lifeVars, index, ploc, qpc, qloc, main, auxVars>>

\* Writer loop: the guard goes out of scope, at the end of an iteration or at
\* the break.
P_Unlock(w) ==
    /\ ppc[w] \in {"unlock", "exit"}
    /\ flag' = GuardDropStores
    /\ ppc' = [ppc EXCEPT ![w] = IF ppc[w] = "exit" THEN "done" ELSE "lock"]
    /\ UNCHANGED <<file, len, txnVars, lifeVars, index, ploc, qpc, qloc, main, auxVars>>

\* Reader loop: break when every record is read; else Storage::read_at, first
\* half: size_read_buf loads len; an empty slice returns 0 and the loop goes on.
Q_SizeReadBuf(r) ==
    /\ qpc[r] = "poll"
    /\ IF qloc[r].index >= NRecords
         THEN /\ qpc' = [qpc EXCEPT ![r] = "done"]
              /\ UNCHANGED qloc
         ELSE LET dst == SizeReadBuf(len, qloc[r].index * RecordSize, RecordSize)
              IN /\ qloc' = [qloc EXCEPT ![r].dst = dst]
                 /\ qpc' = [qpc EXCEPT ![r] = IF dst = 0 THEN "poll" ELSE "pread"]
    /\ UNCHANGED <<storeVars, txnVars, lifeVars, index, ppc, ploc, main, auxVars>>

\* Reader loop: Storage::read_at, second half: file.read_at(dst, offset) returns
\* n bytes; a short record is polled again, a full one is compared with
\* data[index] and index moves on.
Q_FileRead(r, n) ==
    /\ qpc[r] = "pread"
    /\ n >= 1 /\ n <= qloc[r].dst
    /\ LET got == FileBytes(file, qloc[r].index * RecordSize, n)
       IN qloc' = [qloc EXCEPT ![r] =
                     IF Len(got) = RecordSize
                       THEN [index |-> @.index + 1, dst |-> 0, buf |-> got]
                       ELSE [@ EXCEPT !.dst = 0]]
    /\ qpc' = [qpc EXCEPT ![r] = "poll"]
    /\ UNCHANGED <<storeVars, txnVars, lifeVars, index, ppc, ploc, main, auxVars>>

\* After the join: read_exact_at(0, buf) for the total size of the data.
M_ReadAll ==
    /\ main.pc = "join"
    /\ \A w \in Writers : ppc[w] = "done"
    /\ \A r \in Readers : qpc[r] = "done"
    /\ LET total == NRecords * RecordSize
           dst == SizeReadBuf(len, 0, total)
       IN main' = IF dst # total THEN [pc |-> "eof", buf |-> <<>>]
                  ELSE [pc |-> "read", buf |-> FileBytes(file, 0, dst)]
    /\ UNCHANGED <<storeVars, txnVars, lifeVars, index, ppc, ploc, qpc, qloc, auxVars>>

\* ------------------------------------------------------------ SpecPar
ParInit ==
    /\ index = 0
    /\ ppc = [w \in Writers |-> "lock"]
    /\ ploc = [w \in Writers |-> [next_index |-> 0, len |-> 0, written |-> 0]]
    /\ qpc = [r \in Readers |-> "poll"]
    /\ qloc = [r \in Readers |-> [index |-> 0, dst |-> 0, buf |-> <<>>]]
    /\ main = [pc |-> "join", buf |-> <<>>]

InitPar == StoreInit /\ TxnIdle /\ ParInit /\ LifeInit /\ AuxIdle

NextPar ==
    \/ \E w \in Writers : P_TryLock(w)
    \/ \E w \in Writers : P_FetchAdd(w)
    \/ \E w \in Writers : P_LoadLen(w)
    \/ \E w \in Writers, k \in 1..RecordSize : P_Write(w, k)
    \/ \E w \in Writers : P_StoreLen(w)
    \/ \E w \in Writers : P_Unlock(w)
    \/ \E r \in Readers : Q_SizeReadBuf(r)
    \/ \E r \in Readers, n \in 1..RecordSize : Q_FileRead(r, n)
    \/ M_ReadAll

SpecPar == InitPar /\ [][NextPar]_vars


\* ------------------------------------------------------------ storage.rs, one handle
\* One owner calling Storage's methods one after the other (`truncate` takes
\* &mut self, `close` takes self), the file system failing where it may, and the
\* process crashing anywhere. The file outlives the handle.
Bufs == Payloads \cup {<<>>}

\* Every field but name, ret and pre of a result is that of NoRes.
Returned(name, ret, pre) == [NoRes EXCEPT !.name = name, !.ret = ret, !.pre = pre]

\* A call may start: a handle exists, no call is in progress, no loop is running.
Callable == life = "open" /\ op.pc = "idle" /\ ~cur.on

\* Faulty variant of Storage::append: len is stored before the bytes are written.
S_Append_StoresFirst(buf) ==
    /\ Callable
    /\ len + Len(buf) <= MaxDisk
    /\ IF Len(buf) = 0
         THEN /\ res' = Returned("append", "ok", len)
              /\ UNCHANGED <<op, len>>
         ELSE /\ op' = [NoOp EXCEPT !.name = "append", !.pc = "write", !.buf = buf,
                                    !.len = len]
              /\ len' = len + Len(buf)
              /\ res' = NoRes
    /\ UNCHANGED <<file, flag, txnVars, parVars, life, expect, hist, cur, auxVars>>

\* Storage::append(buf): an empty buffer returns Ok at once; else len is loaded.
S_Append(buf) ==
    /\ Callable
    /\ len + Len(buf) <= MaxDisk
    /\ IF Len(buf) = 0
         THEN /\ res' = Returned("append", "ok", len)
              /\ UNCHANGED op
         ELSE /\ op' = [NoOp EXCEPT !.name = "append", !.pc = "write", !.buf = buf,
                                    !.len = len]
              /\ res' = NoRes
    /\ UNCHANGED <<storeVars, txnVars, parVars, life, expect, hist, cur, auxVars>>

\* Storage::append: file.write_all_at(buf, len) writes k more bytes.
S_Write(k) ==
    /\ life = "open" /\ op.pc = "write"
    /\ k >= 1 /\ op.written + k <= Len(op.buf)
    /\ file' = WriteAt(file, op.len + op.written,
                       SubSeq(op.buf, op.written + 1, op.written + k))
    /\ op' = [op EXCEPT !.written = @ + k,
                        !.pc = IF op.written + k = Len(op.buf) THEN "store" ELSE "write"]
    /\ UNCHANGED <<len, flag, txnVars, parVars, life, res, expect, hist, cur, auxVars>>

\* Storage::append: write_all_at fails, `?` returns the error; what was written
\* so far stays in the file.
S_WriteErr ==
    /\ life = "open" /\ op.pc = "write"
    /\ res' = Returned("append", "err", op.len)
    /\ op' = NoOp
    /\ hist' = [hist EXCEPT !.failed = TRUE]
    /\ UNCHANGED <<storeVars, txnVars, parVars, life, expect, cur, auxVars>>

\* Storage::append: len.store(len + buf.len(), Release); Ok.
S_StoreLen ==
    /\ life = "open" /\ op.pc = "store"
    /\ len' = NewLen(op.len, Len(op.buf))
    /\ expect' = expect \o op.buf
    /\ res' = Returned("append", "ok", op.len)
    /\ op' = NoOp
    /\ UNCHANGED <<file, flag, txnVars, parVars, life, hist, cur, auxVars>>

\* Faulty variant of the test of truncate: never a no-op.
TruncateNoop_Never(n, storage_len) == FALSE

\* Storage::truncate: nothing to do when len >= storage_len.
TruncateNoop(n, storage_len) == n >= storage_len

\* Storage::truncate(n): load len, return Ok when there is nothing to cut.
S_Truncate(n) ==
    /\ Callable
    /\ IF TruncateNoop(n, len)
         THEN /\ res' = [Returned("truncate", "ok", len) EXCEPT !.want = n]
              /\ UNCHANGED op
         ELSE /\ op' = [NoOp EXCEPT !.name = "truncate", !.pc = "set_len", !.arg = n,
                                    !.len = len]
              /\ res' = NoRes
    /\ UNCHANGED <<storeVars, txnVars, parVars, life, expect, hist, cur, auxVars>>

\* Faulty variant of Storage::truncate: len is stored though set_len failed.
S_SetLen_IgnoresError(fail) ==
    /\ life = "open" /\ op.pc = "set_len"
    /\ IF fail
         THEN /\ res' = [Returned("truncate", "err", op.len) EXCEPT !.want = op.arg]
              /\ op' = NoOp
              /\ len' = op.arg
              /\ UNCHANGED file
         ELSE /\ file' = SetLen(file, op.arg)
              /\ op' = [op EXCEPT !.pc = "set_store"]
              /\ UNCHANGED <<res, len>>
    /\ UNCHANGED <<flag, txnVars, parVars, life, expect, hist, cur, auxVars>>

\* Storage::truncate: file.set_len(n)?; a failure returns the error and leaves
\* the file as it was.
S_SetLen(fail) ==
    /\ life = "open" /\ op.pc = "set_len"
    /\ IF fail
         THEN /\ res' = [Returned("truncate", "err", op.len) EXCEPT !.want = op.arg]
              /\ op' = NoOp
              /\ UNCHANGED file
         ELSE /\ file' = SetLen(file, op.arg)
              /\ op' = [op EXCEPT !.pc = "set_store"]
              /\ UNCHANGED res
    /\ UNCHANGED <<len, flag, txnVars, parVars, life, expect, hist, cur, auxVars>>

\* Storage::truncate: len.store(n, Release); Ok.
S_TruncateStore ==
    /\ life = "open" /\ op.pc = "set_store"
    /\ len' = op.arg
    /\ expect' = SubSeq(expect, 1, op.arg)
    /\ res' = [Returned("truncate", "ok", op.len) EXCEPT !.want = op.arg]
    /\ op' = NoOp
    /\ UNCHANGED <<file, flag, txnVars, parVars, life, hist, cur, auxVars>>

\* Storage::sync: file.sync_data(), which may fail.
S_Sync(fail) ==
    /\ Callable
    /\ res' = Returned("sync", IF fail THEN "err" ELSE "ok", len)
    /\ UNCHANGED <<storeVars, txnVars, parVars, life, op, expect, hist, cur, auxVars>>

\* Storage::close(self): self.sync(), nothing else; the handle is consumed
\* whatever sync returns.
S_Close(fail) ==
    /\ Callable
    /\ res' = Returned("close", IF fail THEN "err" ELSE "ok", len)
    /\ life' = "closed"
    /\ UNCHANGED <<storeVars, txnVars, parVars, op, expect, hist, cur, auxVars>>

\* The process dies, in the middle of a call or between calls: the handle is
\* gone, the file is what had been written.
S_Crash ==
    /\ life = "open"
    /\ life' = "crashed"
    /\ op' = NoOp
    /\ cur' = NoCur
    /\ res' = Returned("crash", "-", len)
    /\ UNCHANGED <<storeVars, txnVars, parVars, expect, hist, auxVars>>

\* Faulty variants of Storage::open: the length starts at zero, as in create;
\* the length is the one the last handle had published.
OpenLen_Zero(f) == 0
OpenLen_Published(f) == Len(expect)

\* Storage::open: len = file.metadata()?.len()
OpenLen(f) == Len(f)

\* Whether a file is at the path: every handle was made from one, and only a
\* successful destroy removes it.
PathExists == life # "gone"

\* Storage::open(path) once no handle is left: OpenOptions create(false) fails
\* when no file is at the path; else len is taken from the file's metadata.
S_Open ==
    /\ life \in {"closed", "crashed", "gone"}
    /\ IF PathExists
         THEN /\ len' = OpenLen(file)
              /\ life' = "open"
              /\ expect' = FileBytes(file, 0, OpenLen(file))
              /\ hist' = [via |-> life, failed |-> FALSE,
                          adopted |-> Len(file) - Len(expect)]
              /\ res' = Returned("open", "ok", len)
         ELSE /\ res' = Returned("open", "err", len)
              /\ UNCHANGED <<len, life, expect, hist>>
    /\ UNCHANGED <<file, flag, txnVars, parVars, op, cur, auxVars>>

\* Faulty variant of create's open options: create(true), which also opens a
\* file that is already there.
CreateNewOk_Always(exists) == TRUE

\* OpenOptions::create_new(true): the open succeeds only when no file is at the path.
CreateNewOk(exists) == ~exists

\* Storage::create(path) once no handle is left: a new, empty file and len = 0,
\* or the error of the open, which leaves the file that is there alone.
S_Create ==
    /\ life \in {"closed", "crashed", "gone"}
    /\ IF CreateNewOk(PathExists)
         THEN /\ file' = <<>>
              /\ len' = 0
              /\ life' = "open"
              /\ expect' = <<>>
              /\ hist' = [via |-> life, failed |-> FALSE, adopted |-> 0]
              /\ res' = Returned("create", "ok", 0)
         ELSE /\ res' = Returned("create", "err", len)
              /\ UNCHANGED <<file, len, life, expect, hist>>
    /\ UNCHANGED <<flag, txnVars, parVars, op, cur, auxVars>>

\* Storage::destroy(self): fs::remove_file(&self.path); the handle is consumed
\* whatever remove_file returns, the file is gone when it returns Ok.
S_Destroy(fail) ==
    /\ Callable
    /\ res' = Returned("destroy", IF fail THEN "err" ELSE "ok", len)
    /\ life' = IF fail THEN "closed" ELSE "gone"
    /\ file' = IF fail THEN file ELSE <<>>
    /\ UNCHANGED <<len, flag, txnVars, parVars, op, expect, hist, cur, auxVars>>

\* Storage::read_at(offset, buf of n bytes): the slice size_read_buf allows, of
\* which file.read_at returns the first k bytes.
ReadAtData(offset, n, k) == FileBytes(file, offset, Min(k, SizeReadBuf(len, offset, n)))

\* Storage::read_at: Ok(0) without touching the file when the slice is empty;
\* else what the kernel returns, at least one byte short of an error.
S_ReadAt(offset, n, k, fail) ==
    /\ Callable
    /\ LET dst == SizeReadBuf(len, offset, n)
       IN /\ IF dst = 0 THEN k = 0 /\ ~fail
             ELSE IF fail THEN k = 1 ELSE k >= 1 /\ k <= dst
          /\ res' = [name |-> "read_at", ret |-> IF fail THEN "err" ELSE "ok",
                     pre |-> len, offset |-> offset, want |-> n, dst |-> dst,
                     data |-> IF fail THEN <<>> ELSE ReadAtData(offset, n, k)]
    /\ UNCHANGED <<storeVars, txnVars, parVars, life, op, expect, hist, cur, auxVars>>

\* Faulty variant of the test of read_exact_at: a short slice is accepted.
ExactEof_Never(want, dst) == FALSE

\* Storage::read_exact_at: UnexpectedEof when size_read_buf shortened the buffer.
ExactEof(want, dst) == want # dst

\* Storage::read_exact_at(offset, buf of n bytes): UnexpectedEof when the slice
\* is shorter than the buffer, Ok on an empty one, else file.read_exact_at.
S_ReadExactAt(offset, n, fail) ==
    /\ Callable
    /\ LET dst == SizeReadBuf(len, offset, n)
           data == FileBytes(file, offset, dst)
           ret == IF ExactEof(n, dst) THEN "eof"
                  ELSE IF dst = 0 THEN "ok"
                  ELSE IF fail THEN "err"
                  ELSE IF Len(data) = dst THEN "ok" ELSE "eof"
       IN /\ (ExactEof(n, dst) \/ dst = 0) => ~fail
          /\ res' = [name |-> "read_exact_at", ret |-> ret, pre |-> len,
                     offset |-> offset, want |-> n, dst |-> dst,
                     data |-> IF ret = "ok" THEN data ELSE <<>>]
    /\ UNCHANGED <<storeVars, txnVars, parVars, life, op, expect, hist, cur, auxVars>>

\* The caller's loop around read_at: a buffer as large as the storage, read
\* from offset 0 ...
S_LoopStart ==
    /\ Callable
    /\ len > 0 /\ len <= MaxBuf
    /\ cur' = [on |-> TRUE, offset |-> 0, left |-> len, want |-> len, acc |-> <<>>]
    /\ UNCHANGED <<storeVars, txnVars, parVars, life, op, res, expect, hist, auxVars>>

\* ... `read = storage.read_at(offset, buf)?; offset += read; buf = buf[read..]`
\* while the buffer is not empty ...
S_LoopRead(k, fail) ==
    /\ life = "open" /\ cur.on /\ cur.left > 0
    /\ LET dst == SizeReadBuf(len, cur.offset, cur.left)
           data == ReadAtData(cur.offset, cur.left, k)
       IN /\ IF dst = 0 THEN k = 0 /\ ~fail
             ELSE IF fail THEN k = 1 ELSE k >= 1 /\ k <= dst
          /\ res' = [name |-> "read_at", ret |-> IF fail THEN "err" ELSE "ok",
                     pre |-> len, offset |-> cur.offset, want |-> cur.left, dst |-> dst,
                     data |-> IF fail THEN <<>> ELSE data]
          /\ cur' = IF fail THEN NoCur
                    ELSE [cur EXCEPT !.offset = @ + Len(data), !.left = @ - Len(data),
                                     !.acc = @ \o data]
    /\ UNCHANGED <<storeVars, txnVars, parVars, life, op, expect, hist, auxVars>>

\* ... and the loop ends with the buffer full.
S_LoopEnd ==
    /\ life = "open" /\ cur.on /\ cur.left = 0
    /\ cur' = NoCur
    /\ UNCHANGED <<storeVars, txnVars, parVars, life, op, res, expect, hist, auxVars>>

\* ------------------------------------------------------------ SpecLife
InitLife == StoreInit /\ TxnIdle /\ ParIdle /\ LifeInit /\ AuxIdle

NextLife ==
    \/ \E buf \in Bufs : S_Append(buf)
    \/ \E k \in 1..MaxAppend : S_Write(k)
    \/ S_WriteErr
    \/ S_StoreLen
    \/ \E n \in 0..(MaxDisk + 1) : S_Truncate(n)
    \/ \E fail \in BOOLEAN : S_SetLen(fail)
    \/ S_TruncateStore
    \/ \E fail \in BOOLEAN : S_Sync(fail)
    \/ \E fail \in BOOLEAN : S_Close(fail)
    \/ S_Crash
    \/ S_Open
    \/ S_Create
    \/ \E fail \in BOOLEAN : S_Destroy(fail)
    \/ \E o \in 0..(MaxDisk + 1), n \in 0..MaxBuf, k \in 0..MaxBuf, fail \in BOOLEAN :
          S_ReadAt(o, n, k, fail)
    \/ \E o \in 0..(MaxDisk + 1), n \in 0..MaxBuf, fail \in BOOLEAN : S_ReadExactAt(o, n, fail)
    \/ S_LoopStart
    \/ \E k \in 0..MaxBuf, fail \in BOOLEAN : S_LoopRead(k, fail)
    \/ S_LoopEnd

SpecLife == InitLife /\ [][NextLife]_vars

\* ------------------------------------------------------------ storage.rs, any guard
\* Callers of Storage::append(buf, &guard) on one storage: each takes a guard
\* of its own first, from whichever MutLock it has at hand; `_guard` is not looked
\* at, so the storage cannot tell one lock's guard from another's.
G_Region == {"write", "store"}

\* The buffer a caller appends: n bytes that name the caller.
GuardBuf(w, n) == [i \in 1..n |-> w]

\* MutLock::try_lock on lock l, which is RawLock::try_acquire; tried again when
\* the lock is held.
G_TryLock(w, l) ==
    /\ gpc[w] = "lock"
    /\ locks' = [locks EXCEPT ![l] = SwapStores(locks[l])]
    /\ IF TryAcquireOk(locks[l])
         THEN /\ gpc' = [gpc EXCEPT ![w] = "append"]
              /\ gloc' = [gloc EXCEPT ![w].lock = l]
              /\ used' = used \cup {l}
         ELSE UNCHANGED <<gpc, gloc, used>>
    /\ UNCHANGED <<storeVars, txnVars, parVars, lifeVars, bufVars, codecVars, endVars, spinVars, vecVars>>

\* Storage::append(buf, &guard): return early on an empty buffer, else load len.
G_LoadLen(w, buf) ==
    /\ gpc[w] = "append"
    /\ len + Len(buf) <= MaxDisk
    /\ IF Len(buf) = 0
         THEN /\ gpc' = [gpc EXCEPT ![w] = "unlock"]
              /\ UNCHANGED gloc
         ELSE /\ gloc' = [gloc EXCEPT ![w].buf = buf, ![w].len = len, ![w].written = 0]
              /\ gpc' = [gpc EXCEPT ![w] = "write"]
    /\ UNCHANGED <<storeVars, txnVars, parVars, lifeVars, locks, used, bufVars, codecVars, endVars, spinVars, vecVars>>

\* Storage::append: file.write_all_at(buf, len). No caller here reads the file,
\* so the bytes land in one step, however many writes the call takes.
G_Write(w) ==
    /\ gpc[w] = "write"
    /\ file' = WriteAt(file, gloc[w].len, gloc[w].buf)
    /\ gloc' = [gloc EXCEPT ![w].written = Len(gloc[w].buf)]
    /\ gpc' = [gpc EXCEPT ![w] = "store"]
    /\ UNCHANGED <<len, flag, txnVars, parVars, lifeVars, locks, used, bufVars, codecVars, endVars, spinVars, vecVars>>

\* Storage::append: len.store(len + buf.len(), Release); the call returns.
G_StoreLen(w) ==
    /\ gpc[w] = "store"
    /\ len' = NewLen(gloc[w].len, Len(gloc[w].buf))
    /\ gloc' = [gloc EXCEPT ![w] = [NoGuard EXCEPT !.lock = gloc[w].lock]]
    /\ gpc' = [gpc EXCEPT ![w] = "unlock"]
    /\ UNCHANGED <<file, flag, txnVars, parVars, lifeVars, locks, used, bufVars, codecVars, endVars, spinVars, vecVars>>

\* The caller's guard goes out of scope: RawLockGuard::drop on its lock.
G_Unlock(w) ==
    /\ gpc[w] = "unlock"
    /\ locks' = [locks EXCEPT ![gloc[w].lock] = GuardDropStores]
    /\ gloc' = [gloc EXCEPT ![w] = NoGuard]
    /\ gpc' = [gpc EXCEPT ![w] = "lock"]
    /\ UNCHANGED <<storeVars, txnVars, parVars, lifeVars, used, bufVars, codecVars, endVars, spinVars, vecVars>>

\* ------------------------------------------------------------ SpecGuard
GuardInit ==
    /\ locks = [l \in Locks |-> NewLock]
    /\ gpc = [w \in Writers |-> "lock"]
    /\ gloc = [w \in Writers |-> NoGuard]
    /\ used = {}

InitGuard == StoreInit /\ TxnIdle /\ ParIdle /\ LifeInit /\ GuardInit /\ BufIdle /\ CodecIdle /\ EndIdle /\ SpinIdle /\ VecIdle

NextGuard ==
    \/ \E w \in Writers, l \in Locks : G_TryLock(w, l)
    \/ \E w \in Writers, n \in 0..MaxAppend : G_LoadLen(w, GuardBuf(w, n))
    \/ \E w \in Writers : G_Write(w)
    \/ \E w \in Writers : G_StoreLen(w)
    \/ \E w \in Writers : G_Unlock(w)

SpecGuard == InitGuard /\ [][NextGuard]_vars

\* ------------------------------------------------------------ log.rs
\* Bytes of u64::to_be_bytes (seq_no) and of usize::to_be_bytes (the payload
\* size, on a 64-bit target).
SeqNoBytes == 8
SizeBytes == 8

\* to_be_bytes at a width of n bytes: big-endian, base 256.
RECURSIVE BeBytes(_, _)
BeBytes(v, n) == IF n = 0 THEN <<>> ELSE BeBytes(v \div 256, n - 1) \o <<v % 256>>

\* from_be_bytes
RECURSIVE FromBeBytes(_)
FromBeBytes(b) ==
    IF Len(b) = 0 THEN 0 ELSE 256 * FromBeBytes(SubSeq(b, 1, Len(b) - 1)) + b[Len(b)]

\* Log::new_borrowed / Log::new_owned
Log(seq_no, data) == [seq_no |-> seq_no, data |-> data]

\* Faulty variant of Log::write: the size is written before the sequence number.
LogWrite_SizeFirst(log) ==
    BeBytes(Len(log.data), SizeBytes) \o BeBytes(log.seq_no, SeqNoBytes) \o log.data

\* Log::write: the bytes appended to the buffer: seq_no, size, payload.
LogWrite(log) ==
    BeBytes(log.seq_no, SeqNoBytes) \o BeBytes(Len(log.data), SizeBytes) \o log.data

\* Log::next_n: src.split_at_checked(n)
NextN(src, n) ==
    IF n <= Len(src) THEN Some(<<SubSeq(src, 1, n), SubSeq(src, n + 1, Len(src))>>)
    ELSE None

\* Faulty variant of Log::read: a payload cut short is returned as it is.
LogRead_ShortPayload(buf) ==
    LET a == NextN(buf, SeqNoBytes)
    IN IF a = None THEN None
       ELSE LET b == NextN(a[1][2], SizeBytes)
            IN IF b = None THEN None
               ELSE Some([log |-> Log(FromBeBytes(a[1][1]), b[1][2]), rest |-> <<>>])

\* Log::read: the sequence number, the size, the payload, each through next_n
\* and `?`; the parsed log and the bytes that remain.
LogRead(buf) ==
    LET a == NextN(buf, SeqNoBytes)
    IN IF a = None THEN None
       ELSE LET b == NextN(a[1][2], SizeBytes)
            IN IF b = None THEN None
               ELSE LET c == NextN(b[1][2], FromBeBytes(b[1][1]))
                    IN IF c = None THEN None
                       ELSE Some([log |-> Log(FromBeBytes(a[1][1]), c[1][1]),
                                  rest |-> c[1][2]])

\* ------------------------------------------------------------ buf.rs
\* The logs the callers append: sequence numbers, and a payload of each length
\* (bytes 1, 2, ...).
SeqNos == 0..MaxSeq
Datas == {[i \in 1..n |-> i] : n \in 0..MaxData}
Logs == {Log(s, d) : s \in SeqNos, d \in Datas}

\* Vec<u8>: the capacity after room for `needed` bytes was asked for; growth is
\* amortised (twice the capacity, at least 8 bytes).
Grow(cap, needed) == IF needed <= cap THEN cap ELSE Max(Max(2 * cap, needed), 8)

\* LogBuf::with_capacity(capacity)
WithCapacity(capacity) == [count |-> 0, memory |-> <<>>, last |-> None, cap |-> capacity]

\* The capacity the tests construct their buffers with, and the arguments they
\* pass to reserve and to shrink_to.
Capacity == 32
ReserveArgs == {16, 1024}
ShrinkArgs == {5, 32}

\* LogBuf::len
BufLen(b) == Len(b.memory)

\* LogVecIter: every log next() returns, until it returns None ...
RECURSIVE IterLogs(_)
IterLogs(bytes) ==
    LET r == LogRead(bytes)
    IN IF r = None THEN <<>> ELSE <<r[1].log>> \o IterLogs(r[1].rest)

\* ... and the bytes the iterator is left with then.
RECURSIVE IterRest(_)
IterRest(bytes) ==
    LET r == LogRead(bytes)
    IN IF r = None THEN bytes ELSE IterRest(r[1].rest)

\* Faulty variant of LogBuf::first: the last sequence number.
First_FromLast(b) == b.last

\* LogBuf::first: self.iter().next().map(|log| log.seq_no())
First(b) ==
    LET r == LogRead(b.memory)
    IN IF r = None THEN None ELSE Some(r[1].log.seq_no)

\* Faulty variant of the sequence validation: an equal sequence number passes.
AppendRejects_Equal(last, seq_no) == last # None /\ last[1] > seq_no

\* LogBuf::append, sequence validation: `Some(prev_seq_no) = self.last &&
\* prev_seq_no >= log.seq_no()`.
AppendRejects(last, seq_no) == last # None /\ last[1] >= seq_no

\* Faulty variant of LogBuf::clear: last is kept.
Cleared_KeepsLast(b) == [b EXCEPT !.count = 0, !.memory = <<>>]

\* LogBuf::clear: count = 0, memory.clear(), last = None; the capacity stays.
Cleared(b) == [b EXCEPT !.count = 0, !.memory = <<>>, !.last = None]

\* Faulty variant of LogBuf::reinitialize: the excess bytes are kept.
Reinitialize_KeepsExcess(b) ==
    LET logs == IterLogs(b.memory)
    IN [b EXCEPT !.count = Len(logs),
                 !.last = IF Len(logs) = 0 THEN None ELSE Some(logs[Len(logs)].seq_no)]

\* Faulty variant of LogBuf::reinitialize: last is left as it was.
Reinitialize_KeepsLast(b) ==
    LET logs == IterLogs(b.memory)
        excess == Len(IterRest(b.memory))
    IN [b EXCEPT !.count = Len(logs),
                 !.memory = SubSeq(b.memory, 1, Len(b.memory) - excess)]

\* LogBuf::reinitialize: count and last from a walk over the logs in memory, the
\* bytes the walk leaves over are cut off.
Reinitialize(b) ==
    LET logs == IterLogs(b.memory)
        excess == Len(IterRest(b.memory))
    IN [b EXCEPT !.count = Len(logs),
                 !.last = IF Len(logs) = 0 THEN None ELSE Some(logs[Len(logs)].seq_no),
                 !.memory = SubSeq(b.memory, 1, Len(b.memory) - excess)]

\* A LogBuf method returned.
BufReturned(name, ret) == [name |-> name, ret |-> ret, out |-> WithCapacity(0)]

\* No iterator borrows the buffer.
NoIter == [on |-> FALSE, rest |-> <<>>, out |-> <<>>, ended |-> FALSE]

\* Faulty variant of LogBuf::append: the log is written before it is validated.
B_Append_WritesFirst(log) ==
    /\ ~it.on
    /\ lbuf.count < MaxRecs
    /\ lbuf' = IF AppendRejects(lbuf.last, log.seq_no)
                 THEN [lbuf EXCEPT !.memory = @ \o LogWrite(log)]
                 ELSE [lbuf EXCEPT !.memory = @ \o LogWrite(log), !.count = @ + 1,
                                   !.last = Some(log.seq_no)]
    /\ lres' = BufReturned("append", ~AppendRejects(lbuf.last, log.seq_no))
    /\ UNCHANGED <<it, hst, storeVars, txnVars, parVars, lifeVars, guardVars, codecVars, endVars, spinVars, vecVars>>

\* LogBuf::append(log): false when the sequence validation fails; else the log
\* is written at the end of memory, count and last move on, true.
B_Append(log) ==
    /\ ~it.on
    /\ lbuf.count < MaxRecs
    /\ IF AppendRejects(lbuf.last, log.seq_no)
         THEN /\ lres' = BufReturned("append", FALSE)
              /\ UNCHANGED <<lbuf, hst>>
         ELSE /\ lbuf' = [lbuf EXCEPT
                            !.memory = @ \o LogWrite(log),
                            !.cap = Grow(@, Len(lbuf.memory) + Len(LogWrite(log))),
                            !.count = @ + 1,
                            !.last = Some(log.seq_no)]
              /\ hst' = [hst EXCEPT !.recs = IF hst.pure THEN Append(@, log) ELSE @,
                                    !.was = IF lbuf.count = 0 THEN @ ELSE None]
              /\ lres' = BufReturned("append", TRUE)
    /\ UNCHANGED <<it, storeVars, txnVars, parVars, lifeVars, guardVars, codecVars, endVars, spinVars, vecVars>>

\* LogBuf::clear
B_Clear ==
    /\ ~it.on
    /\ lbuf' = Cleared(lbuf)
    /\ hst' = [recs |-> <<>>, pure |-> TRUE, was |-> lbuf.last]
    /\ lres' = BufReturned("clear", TRUE)
    /\ UNCHANGED <<it, storeVars, txnVars, parVars, lifeVars, guardVars, codecVars, endVars, spinVars, vecVars>>

\* LogBuf::reserve(additional): memory.reserve(additional)
B_Reserve(additional) ==
    /\ ~it.on
    /\ lbuf' = [lbuf EXCEPT !.cap = Grow(@, Len(lbuf.memory) + additional)]
    /\ lres' = BufReturned("reserve", TRUE)
    /\ UNCHANGED <<it, hst, storeVars, txnVars, parVars, lifeVars, guardVars, codecVars, endVars, spinVars, vecVars>>

\* LogBuf::shrink_to(capacity): memory.shrink_to(capacity), never below the
\* length and never up.
B_ShrinkTo(capacity) ==
    /\ ~it.on
    /\ lbuf' = [lbuf EXCEPT !.cap = Min(@, Max(Len(lbuf.memory), capacity))]
    /\ lres' = BufReturned("shrink_to", TRUE)
    /\ UNCHANGED <<it, hst, storeVars, txnVars, parVars, lifeVars, guardVars, codecVars, endVars, spinVars, vecVars>>

\* What a caller copies into bytes_mut(): the bytes of a log, whole or cut off
\* before the sequence number, the size or the payload.
BlitCuts(n) == {0, SeqNoBytes, SeqNoBytes + SizeBytes, n}
BlitSources == {SubSeq(LogWrite(l), 1, k) : <<l, k>> \in
                  {<<l, k>> \in Logs \X (0..(SeqNoBytes + SizeBytes + MaxData)) :
                     k \in BlitCuts(Len(LogWrite(l)))}}

\* bytes_mut().extend_from_slice(src), then LogBuf::reinitialize.
B_Blit(src) ==
    /\ ~it.on
    /\ lbuf.count < MaxRecs
    /\ LET filled == [lbuf EXCEPT !.memory = @ \o src,
                                  !.cap = Grow(@, Len(lbuf.memory) + Len(src))]
       IN /\ lbuf' = Reinitialize(filled)
          /\ lres' = [name |-> "reinitialize", ret |-> TRUE, out |-> filled]
    /\ hst' = [recs |-> <<>>, pure |-> FALSE, was |-> None]
    /\ UNCHANGED <<it, storeVars, txnVars, parVars, lifeVars, guardVars, codecVars, endVars, spinVars, vecVars>>

\* A second buffer, empty, takes a copy of bytes() through bytes_mut() and is
\* reinitialized.
B_Clone ==
    /\ ~it.on
    /\ lres' = [name |-> "clone", ret |-> TRUE,
                out |-> Reinitialize([WithCapacity(Capacity) EXCEPT
                                        !.memory = lbuf.memory,
                                        !.cap = Grow(Capacity, Len(lbuf.memory))])]
    /\ UNCHANGED <<lbuf, it, hst, storeVars, txnVars, parVars, lifeVars, guardVars, codecVars, endVars, spinVars, vecVars>>

\* LogBuf::iter: LogVecIter(&self.memory), a fresh iterator.
B_Iter ==
    /\ it' = [on |-> TRUE, rest |-> lbuf.memory, out |-> <<>>, ended |-> FALSE]
    /\ lres' = BufReturned("iter", TRUE)
    /\ UNCHANGED <<lbuf, hst, storeVars, txnVars, parVars, lifeVars, guardVars, codecVars, endVars, spinVars, vecVars>>

\* LogVecIter::next: Log::read on what is left; the log and the rest, or None.
B_IterNext ==
    /\ it.on
    /\ ~it.ended
    /\ LET r == LogRead(it.rest)
       IN it' = IF r = None THEN [it EXCEPT !.ended = TRUE]
                ELSE [it EXCEPT !.rest = r[1].rest, !.out = Append(@, r[1].log)]
    /\ UNCHANGED <<lbuf, lres, hst, storeVars, txnVars, parVars, lifeVars, guardVars, codecVars, endVars, spinVars, vecVars>>

\* The iterator goes out of scope: the buffer may be mutated again.
B_IterDrop ==
    /\ it.on
    /\ it' = NoIter
    /\ UNCHANGED <<lbuf, lres, hst, storeVars, txnVars, parVars, lifeVars, guardVars, codecVars, endVars, spinVars, vecVars>>

\* ------------------------------------------------------------ SpecBuf
BufInit ==
    /\ lbuf = WithCapacity(Capacity)
    /\ lres = BufReturned("with_capacity", TRUE)
    /\ it = NoIter
    /\ hst = [recs |-> <<>>, pure |-> TRUE, was |-> <<>>]

InitBuf == StoreInit /\ TxnIdle /\ ParIdle /\ LifeInit /\ GuardIdle /\ BufInit /\ CodecIdle /\ EndIdle /\ SpinIdle /\ VecIdle

NextBuf ==
    \/ \E log \in Logs : B_Append(log)
    \/ B_Clear
    \/ \E additional \in ReserveArgs : B_Reserve(additional)
    \/ \E capacity \in ShrinkArgs : B_ShrinkTo(capacity)
    \/ \E src \in BlitSources : B_Blit(src)
    \/ B_Clone
    \/ B_Iter
    \/ B_IterNext
    \/ B_IterDrop

SpecBuf == InitBuf /\ [][NextBuf]_vars

\* ------------------------------------------------------------ log.rs, write and read
\* A Vec<u8> that logs are written into (Log::write), that is cut at the end a
\* byte at a time (Vec::truncate), and that is parsed from its start, log after
\* log (Log::read), as the tests of log.rs do.
\* Sequence numbers of one and of two significant bytes.
WideSeqNos == SeqNos \cup {255 + 256 * MaxSeq}
WideLogs == {Log(s, d) : s \in WideSeqNos, d \in Datas}

\* Nothing read since the Vec last changed.
NoRd == [on |-> FALSE, n |-> 0, in |-> <<>>, ret |-> None]

\* log.write(&mut buf)
L_Write(log) ==
    /\ wr.cut = 0
    /\ Len(wr.logs) < MaxLogs
    /\ vec' = vec \o LogWrite(log)
    /\ wr' = [wr EXCEPT !.logs = Append(@, log)]
    /\ rd' = NoRd
    /\ UNCHANGED <<storeVars, txnVars, parVars, lifeVars, guardVars, bufVars, endVars, spinVars, vecVars>>

\* buf.truncate(buf.len() - 1)
L_Truncate ==
    /\ Len(vec) > 0
    /\ vec' = SubSeq(vec, 1, Len(vec) - 1)
    /\ wr' = [wr EXCEPT !.cut = @ + 1]
    /\ rd' = NoRd
    /\ UNCHANGED <<storeVars, txnVars, parVars, lifeVars, guardVars, bufVars, endVars, spinVars, vecVars>>

\* Log::read(&buf): the first log of the Vec.
L_Read ==
    /\ rd' = [on |-> TRUE, n |-> 0, in |-> vec, ret |-> LogRead(vec)]
    /\ UNCHANGED <<vec, wr, storeVars, txnVars, parVars, lifeVars, guardVars, bufVars, endVars, spinVars, vecVars>>

\* Log::read(buf) on the bytes the read before returned as remaining.
L_ReadNext ==
    /\ rd.on
    /\ rd.ret # None
    /\ rd' = [on |-> TRUE, n |-> rd.n + 1, in |-> rd.ret[1].rest,
              ret |-> LogRead(rd.ret[1].rest)]
    /\ UNCHANGED <<vec, wr, storeVars, txnVars, parVars, lifeVars, guardVars, bufVars, endVars, spinVars, vecVars>>

\* ------------------------------------------------------------ SpecCodec
CodecInit ==
    /\ vec = <<>>
    /\ wr = [logs |-> <<>>, cut |-> 0]
    /\ rd = NoRd

InitCodec == StoreInit /\ TxnIdle /\ ParIdle /\ LifeInit /\ GuardIdle /\ BufIdle /\ CodecInit /\ EndIdle /\ SpinIdle /\ VecIdle

NextCodec ==
    \/ \E log \in WideLogs : L_Write(log)
    \/ L_Truncate
    \/ L_Read
    \/ L_ReadNext

SpecCodec == InitCodec /\ [][NextCodec]_vars

\* ------------------------------------------------------------ transactions, how they end
\* The append transaction with its file-system calls failing or not: commit
\* (sync_data may fail), abort and drop (set_len may fail), the release of the
\* flag at the end of each of them, and Storage::truncate between transactions.

\* Faulty variant of commit: flush is asked for and the file is never synced.
E_Commit_SkipsSync(w, flush) ==
    /\ wpc[w] = "open"
    /\ IF wtxn[w].start = wtxn[w].next
         THEN /\ wpc' = [wpc EXCEPT ![w] = "release"]
              /\ wtxn' = [wtxn EXCEPT ![w].how = "noop"]
         ELSE /\ wpc' = [wpc EXCEPT ![w] = "publish"]
              /\ wtxn' = [wtxn EXCEPT ![w].how = IF flush THEN "flush" ELSE "live"]
    /\ UNCHANGED <<storeVars, wret, rpc, rtxn, rgot, committed, rolledAt, parVars, lifeVars,
                   auxVars>>

\* AppendTxn::commit(flush), step 1 and the way to steps 2 and 3: nothing
\* written completes the transaction; else data-sync first when flush is set.
E_Commit(w, flush) ==
    /\ wpc[w] = "open"
    /\ IF wtxn[w].start = wtxn[w].next
         THEN /\ wpc' = [wpc EXCEPT ![w] = "release"]
              /\ wtxn' = [wtxn EXCEPT ![w].how = "noop"]
         ELSE /\ wpc' = [wpc EXCEPT ![w] = IF flush THEN "sync" ELSE "publish"]
              /\ wtxn' = [wtxn EXCEPT ![w].how = IF flush THEN "flush" ELSE "live"]
    /\ UNCHANGED <<storeVars, wret, rpc, rtxn, rgot, committed, rolledAt, parVars, lifeVars,
                   auxVars>>

\* AppendTxn::commit(flush = true), step 2: File::sync_data. When it fails the
\* error is returned, the transaction is not complete and its destructor runs.
E_Sync(w, fail) ==
    /\ wpc[w] = "sync"
    /\ IF fail
         THEN /\ wpc' = [wpc EXCEPT ![w] = "rollback"]
              /\ wtxn' = [wtxn EXCEPT ![w].how = "commit_failed"]
              /\ UNCHANGED durable
         ELSE /\ wpc' = [wpc EXCEPT ![w] = "publish"]
              /\ durable' = file
              /\ UNCHANGED wtxn
    /\ UNCHANGED <<storeVars, wret, rpc, rtxn, rgot, committed, rolledAt, parVars, lifeVars,
                   guardVars, bufVars, codecVars, ended, spinVars, vecVars>>

\* AppendTxn::abort is called.
E_Abort(w) ==
    /\ wpc[w] = "open"
    /\ wpc' = [wpc EXCEPT ![w] = "rollback"]
    /\ wtxn' = [wtxn EXCEPT ![w].how = "aborted"]
    /\ UNCHANGED <<storeVars, wret, rpc, rtxn, rgot, committed, rolledAt, parVars, lifeVars,
                   auxVars>>

\* The AppendTxn is dropped without commit or abort: its destructor runs.
E_Drop(w) ==
    /\ wpc[w] = "open"
    /\ wpc' = [wpc EXCEPT ![w] = "rollback"]
    /\ wtxn' = [wtxn EXCEPT ![w].how = "dropped"]
    /\ UNCHANGED <<storeVars, wret, rpc, rtxn, rgot, committed, rolledAt, parVars, lifeVars,
                   auxVars>>

\* Faulty variant of the rollback: the flag is released first, set_len comes after.
E_SetLen_AfterRelease(w, fail) ==
    /\ wpc[w] = "rollback"
    /\ ~fail
    /\ IF wtxn[w].how # "unlocked"
         THEN /\ flag' = GuardDropStores
              /\ wtxn' = [wtxn EXCEPT ![w].how = "unlocked"]
              /\ UNCHANGED <<file, wpc>>
         ELSE /\ file' = IF wtxn[w].next > wtxn[w].start THEN SetLen(file, wtxn[w].start)
                         ELSE file
              /\ wpc' = [wpc EXCEPT ![w] = "release"]
              /\ UNCHANGED <<flag, wtxn>>
    /\ UNCHANGED <<len, wret, rpc, rtxn, rgot, committed, rolledAt, parVars, lifeVars, auxVars>>

\* The rollback of abort and of the destructor: set_len(start) if bytes were
\* written. abort returns the error of a failing set_len and the destructor
\* then tries once more; the destructor swallows the error. (The history of
\* the read side, rolledAt, is not kept here.)
E_SetLen(w, fail) ==
    /\ wpc[w] = "rollback"
    /\ LET wrote == wtxn[w].next > wtxn[w].start
       IN /\ fail => wrote
          /\ file' = IF wrote /\ ~fail THEN SetLen(file, wtxn[w].start) ELSE file
          /\ IF fail /\ wtxn[w].how = "aborted"
               THEN /\ wtxn' = [wtxn EXCEPT ![w].how = "abort_failed"]
                    /\ UNCHANGED wpc
               ELSE /\ wpc' = [wpc EXCEPT ![w] = "release"]
                    /\ UNCHANGED wtxn
    /\ UNCHANGED <<len, flag, wret, rpc, rtxn, rgot, committed, rolledAt, parVars, lifeVars,
                   auxVars>>

\* The end of commit, of abort and of the destructor: the guard goes out of
\* scope, RawLockGuard::drop. How the transaction ended is kept on record.
E_Release(w) ==
    /\ wpc[w] = "release"
    /\ flag' = GuardDropStores
    /\ wpc' = [wpc EXCEPT ![w] = "idle"]
    /\ wret' = [wret EXCEPT ![w] = "-"]
    /\ wtxn' = [wtxn EXCEPT ![w] = NoTxn]
    /\ ended' = wtxn[w].how
    /\ UNCHANGED <<file, len, rpc, rtxn, rgot, committed, rolledAt, parVars, lifeVars,
                   guardVars, bufVars, codecVars, durable, spinVars, vecVars>>

\* Storage::truncate(len), on an exclusive reference (no transaction is
\* outstanding): nothing when len >= self.len; else set_len, which may fail,
\* then len.store.
E_Truncate(n, fail) ==
    /\ \A w \in Writers : wpc[w] = "idle"
    /\ fail => n < len
    /\ IF n >= len \/ fail
         THEN UNCHANGED <<file, len, committed>>
         ELSE /\ file' = SetLen(file, n)
              /\ len' = n
              /\ committed' = SubSeq(committed, 1, n)
    /\ UNCHANGED <<flag, wpc, wtxn, wret, rpc, rtxn, rgot, rolledAt, parVars, lifeVars, auxVars>>

\* ------------------------------------------------------------ SpecEnd
NextEnd ==
    \/ \E w \in Writers : AppendTxn(w)
    \/ \E w \in Writers : TxnBegin(w)
    \/ \E w \in Writers, b \in Payloads : TxnAppend(w, b)
    \/ \E w \in Writers, flush \in BOOLEAN : E_Commit(w, flush)
    \/ \E w \in Writers, fail \in BOOLEAN : E_Sync(w, fail)
    \/ \E w \in Writers : TxnPublish(w)
    \/ \E w \in Writers : E_Abort(w)
    \/ \E w \in Writers : E_Drop(w)
    \/ \E w \in Writers, fail \in BOOLEAN : E_SetLen(w, fail)
    \/ \E w \in Writers : E_Release(w)
    \/ \E n \in 0..MaxFile, fail \in BOOLEAN : E_Truncate(n, fail)

SpecEnd == Init /\ [][NextEnd]_vars

\* A thread that is inside commit, abort or the destructor runs on to the end
\* of it: the calls terminate and the scheduler runs every thread.
E_Finish(w) ==
    \/ \E fail \in BOOLEAN : E_Sync(w, fail)
    \/ TxnPublish(w)
    \/ \E fail \in BOOLEAN : E_SetLen(w, fail)
    \/ E_Release(w)

SpecEndFair == SpecEnd /\ \A w \in Writers : WF_vars(E_Finish(w))

\* ------------------------------------------------------------ lock.rs, the spin lock
\* tests::state_machine_test: the main thread spawns MAX_THREADS workers, each
\* doing spin_acquire, DATA.push(i) and the drop of its guard; main joins them,
\* takes the lock with try_acquire, sorts DATA and compares it with 0..MAX_THREADS.
\* Vec::push is a read of the length and a write of the element and of the new
\* length, two steps here, so that pushes which overlap would show.

\* Faulty variant of the loop of spin_acquire: the result of the swap is ignored.
SpinAgain_Never(old) == FALSE

\* spin_acquire: while self.0.swap(true, Acquire) -- loops while the flag was set.
SpinAgain(old) == old

\* The workers that hold a guard.
InCritical == {t \in Threads : spc[t] \in {"load", "store", "drop"}}

\* for i in 0..MAX_THREADS { scope.spawn(..) }: one spawn, the next index.
M_Spawn(t) ==
    /\ smain = "spawn"
    /\ spc[t] = "unborn"
    /\ \A u \in Threads : u < t => spc[u] # "unborn"
    /\ spc' = [spc EXCEPT ![t] = "spin"]
    /\ smain' = IF t = MAX_THREADS - 1 THEN "join" ELSE "spawn"
    /\ UNCHANGED <<storeVars, txnVars, parVars, lifeVars, guardVars, bufVars, codecVars, endVars,
                   LOCK, DATA, sloc, spun, vecVars>>

\* RawLock::spin_acquire, one turn of its loop: the swap, and the guard when
\* the flag was clear.
S_Spin(t) ==
    /\ spc[t] = "spin"
    /\ LOCK' = SwapStores(LOCK)
    /\ spc' = [spc EXCEPT ![t] = IF SpinAgain(LOCK) THEN "spin" ELSE "load"]
    /\ spun' = (spun \/ LOCK)
    /\ UNCHANGED <<storeVars, txnVars, parVars, lifeVars, guardVars, bufVars, codecVars, endVars,
                   DATA, sloc, smain, vecVars>>

\* DATA.push(i), the read of the length.
S_PushLoad(t) ==
    /\ spc[t] = "load"
    /\ sloc' = [sloc EXCEPT ![t] = Len(DATA)]
    /\ spc' = [spc EXCEPT ![t] = "store"]
    /\ UNCHANGED <<storeVars, txnVars, parVars, lifeVars, guardVars, bufVars, codecVars, endVars,
                   LOCK, DATA, smain, spun, vecVars>>

\* DATA.push(i), the write of the element at the length read and of length + 1.
S_PushStore(t) ==
    /\ spc[t] = "store"
    /\ DATA' = [i \in 1..(sloc[t] + 1) |-> IF i = sloc[t] + 1 THEN t ELSE DATA[i]]
    /\ sloc' = [sloc EXCEPT ![t] = 0]
    /\ spc' = [spc EXCEPT ![t] = "drop"]
    /\ UNCHANGED <<storeVars, txnVars, parVars, lifeVars, guardVars, bufVars, codecVars, endVars,
                   LOCK, smain, spun, vecVars>>

\* The worker's closure ends: RawLockGuard::drop, and the thread is over.
S_Drop(t) ==
    /\ spc[t] = "drop"
    /\ LOCK' = GuardDropStores
    /\ spc' = [spc EXCEPT ![t] = "done"]
    /\ UNCHANGED <<storeVars, txnVars, parVars, lifeVars, guardVars, bufVars, codecVars, endVars,
                   DATA, sloc, smain, spun, vecVars>>

\* for worker in workers { worker.join() }: returns when every worker is over.
M_Join ==
    /\ smain = "join"
    /\ \A t \in Threads : spc[t] = "done"
    /\ smain' = "try"
    /\ UNCHANGED <<storeVars, txnVars, parVars, lifeVars, guardVars, bufVars, codecVars, endVars,
                   LOCK, DATA, spc, sloc, spun, vecVars>>

\* LOCK.try_acquire().expect("Should obtain lock"): panics on None.
M_TryAcquire ==
    /\ smain = "try"
    /\ LOCK' = SwapStores(LOCK)
    /\ smain' = IF TryAcquireOk(LOCK) THEN "sort" ELSE "panicked"
    /\ UNCHANGED <<storeVars, txnVars, parVars, lifeVars, guardVars, bufVars, codecVars, endVars,
                   DATA, spc, sloc, spun, vecVars>>

\* DATA.sort(), the assert_eq with 0..MAX_THREADS, and the drop of main's guard
\* at the end of the scope (also when the assertion unwinds).
M_SortAssert ==
    /\ smain = "sort"
    /\ DATA' = SortSeq(DATA, LAMBDA a, b : a < b)
    /\ smain' = IF DATA' = [i \in 1..MAX_THREADS |-> i - 1] THEN "passed" ELSE "failed"
    /\ LOCK' = GuardDropStores
    /\ UNCHANGED <<storeVars, txnVars, parVars, lifeVars, guardVars, bufVars, codecVars, endVars,
                   spc, sloc, spun, vecVars>>

\* ------------------------------------------------------------ SpecSpin
\* A worker's next step.
S_Step(t) == S_Spin(t) \/ S_PushLoad(t) \/ S_PushStore(t) \/ S_Drop(t)

\* The main thread's next step.
M_Step == (\E t \in Threads : M_Spawn(t)) \/ M_Join \/ M_TryAcquire \/ M_SortAssert

NextSpin ==
    \/ \E t \in Threads : M_Spawn(t)
    \/ \E t \in Threads : S_Spin(t)
    \/ \E t \in Threads : S_PushLoad(t)
    \/ \E t \in Threads : S_PushStore(t)
    \/ \E t \in Threads : S_Drop(t)
    \/ M_Join
    \/ M_TryAcquire
    \/ M_SortAssert

SpecSpin == Init /\ [][NextSpin]_vars

\* The scheduler runs every thread: a thread whose next step stays possible
\* takes it. (A worker that finds the lock taken has no step that changes
\* anything; no order among the waiting workers is assumed.)
SpecSpinFair == SpecSpin /\ WF_vars(M_Step) /\ \A t \in Threads : WF_vars(S_Step(t))

\* ------------------------------------------------------------ avec.rs
\* AtomicVec<usize> shared by pushing threads and a reading thread. push is
\* taken apart at its accesses to shared memory: the swap of try_acquire, the
\* load of len, the write of the slot, the fetch_add, the store of the guard's
\* drop. A read through Deref is the load of len, then the access to a slot
\* of the slice of that length.

\* What a read of a slot returns: a slot never written holds anything.
SlotRead(x) == IF x = Uninit THEN {0} \cup Elems ELSE {x}

\* The pushing threads that hold the guard of the vector's lock.
VecGuards == {p \in Pushers : push[p].pc \in {"load", "write", "publish", "return"}}

\* push, line 62: self.lock.try_acquire(); Err(Conflict(elem)) when it is None.
V_TryAcquire(p, elem) ==
    /\ push[p].pc = "idle"
    /\ vlock' = SwapStores(vlock)
    /\ push' = [push EXCEPT ![p] =
                  IF TryAcquireOk(vlock)
                    THEN [pc |-> "load", elem |-> elem, len |-> 0, ret |-> "-"]
                    ELSE [pc |-> "idle", elem |-> 0, len |-> 0, ret |-> "conflict"]]
    /\ UNCHANGED <<storeVars, txnVars, parVars, lifeVars, guardVars, bufVars, codecVars, endVars,
                   spinVars, vlen, vmem, slice, pushed>>

\* push, lines 67-70: len.load(Relaxed), and Err(Overflow) when len == cap.
V_Load(p) ==
    /\ push[p].pc = "load"
    /\ push' = [push EXCEPT ![p].len = vlen,
                            ![p].ret = IF vlen = VecCap THEN "overflow" ELSE "-",
                            ![p].pc = IF vlen = VecCap THEN "return" ELSE "write"]
    /\ UNCHANGED <<storeVars, txnVars, parVars, lifeVars, guardVars, bufVars, codecVars, endVars,
                   spinVars, vlock, vlen, vmem, slice, pushed>>

\* Faulty variant of the write: the slot is left as it is.
V_Write_Skipped(p) ==
    /\ push[p].pc = "write"
    /\ push' = [push EXCEPT ![p].pc = "publish"]
    /\ UNCHANGED <<storeVars, txnVars, parVars, lifeVars, guardVars, bufVars, codecVars, endVars,
                   spinVars, vlock, vlen, vmem, slice, pushed>>

\* push, line 76: self.ptr.add(len).write(elem).
V_Write(p) ==
    /\ push[p].pc = "write"
    /\ vmem' = [vmem EXCEPT ![push[p].len] = push[p].elem]
    /\ push' = [push EXCEPT ![p].pc = "publish"]
    /\ UNCHANGED <<storeVars, txnVars, parVars, lifeVars, guardVars, bufVars, codecVars, endVars,
                   spinVars, vlock, vlen, slice, pushed>>

\* push, line 77: self.len.fetch_add(1, Release); Ok(()) is what will return.
V_Publish(p) ==
    /\ push[p].pc = "publish"
    /\ vlen' = vlen + 1
    /\ pushed' = Append(pushed, push[p].elem)
    /\ push' = [push EXCEPT ![p].pc = "return", ![p].ret = "ok"]
    /\ UNCHANGED <<storeVars, txnVars, parVars, lifeVars, guardVars, bufVars, codecVars, endVars,
                   spinVars, vlock, vmem, slice>>

\* push returns Ok or Err(Overflow): _guard goes out of scope, RawLockGuard::drop.
V_Return(p) ==
    /\ push[p].pc = "return"
    /\ vlock' = GuardDropStores
    /\ push' = [push EXCEPT ![p].pc = "idle", ![p].elem = 0, ![p].len = 0]
    /\ UNCHANGED <<storeVars, txnVars, parVars, lifeVars, guardVars, bufVars, codecVars, endVars,
                   spinVars, vlen, vmem, slice, pushed>>

\* Deref::deref: len.load(Acquire), the slice is the first len slots.
V_Deref ==
    /\ slice.pc = "idle"
    /\ slice' = [pc |-> "get", len |-> vlen, idx |-> 0, ret |-> None]
    /\ UNCHANGED <<storeVars, txnVars, parVars, lifeVars, guardVars, bufVars, codecVars, endVars,
                   spinVars, vlock, vlen, vmem, push, pushed>>

\* vec.get(i) on the slice and the read of *elem: None past the length loaded.
V_Get(i, v) ==
    /\ slice.pc = "get"
    /\ IF i < slice.len
         THEN /\ v \in SlotRead(vmem[i])
              /\ slice' = [slice EXCEPT !.pc = "idle", !.idx = i, !.ret = Some(v)]
         ELSE /\ v = 0
              /\ slice' = [slice EXCEPT !.pc = "idle", !.idx = i, !.ret = None]
    /\ UNCHANGED <<storeVars, txnVars, parVars, lifeVars, guardVars, bufVars, codecVars, endVars,
                   spinVars, vlock, vlen, vmem, push, pushed>>

\* ------------------------------------------------------------ SpecVec
NextVec ==
    \/ \E p \in Pushers, elem \in Elems : V_TryAcquire(p, elem)
    \/ \E p \in Pushers : V_Load(p)
    \/ \E p \in Pushers : V_Write(p)
    \/ \E p \in Pushers : V_Publish(p)
    \/ \E p \in Pushers : V_Return(p)
    \/ V_Deref
    \/ \E i \in 0..(VecCap - 1), v \in {0} \cup Elems : V_Get(i, v)

SpecVec == Init /\ [][NextVec]_vars

\* ------------------------------------------------------------ claims on Spec
\* A writer between a successful acquire and the release of its guard.
Live(w) == wpc[w] # "idle"

\* A writer whose transaction has begun (start and next are set).
InTxn(w) == wtxn[w].how # "none"

\* A writer that has appended bytes and has not yet published or rolled back.
InWindow(w) == wpc[w] \in {"open", "sync", "publish"} /\ wtxn[w].next > wtxn[w].start

\* The reader's last read returned bytes.
GotBytes(r) == rpc[r] = "open" /\ rgot[r].kind \in {"read", "exact"}

\* What the last read returned is the committed content at those offsets.
ReadsCommitted(r) ==
    /\ rgot[r].off + Len(rgot[r].data) <= Len(committed)
    /\ \A i \in 1..Len(rgot[r].data) : rgot[r].data[i] = committed[rgot[r].off + i]

\* C1: at most one append transaction (lock guard) is live at any instant, in
\* every interleaving of the threads calling append_txn.
C1_AtMostOneAppendTxn ==
    \A a, b \in Writers : (Live(a) /\ Live(b)) => a = b

\* C1 witness: one thread holds the guard while another one's call was refused.
C1_Witness ==
    \E a, b \in Writers : a # b /\ Live(a) /\ wret[b] = "absent"

C5_CommitPublishes ==
    /\ \A w \in Writers : wpc[w] = "release" =>
         /\ wtxn[w].how = "committed" =>
              /\ Len(wtxn[w].wrote) > 0
              /\ len = wtxn[w].start + Len(wtxn[w].wrote)
              /\ FileBytes(file, wtxn[w].start, Len(wtxn[w].wrote)) = wtxn[w].wrote
         /\ wtxn[w].how = "noop" => (len = wtxn[w].start /\ wtxn[w].wrote = <<>>)
    /\ \A r \in Readers : GotBytes(r) => ReadsCommitted(r)

\* C5 witness: a transaction of several appends has committed, and a read
\* transaction begun at offset 0 afterwards has read its bytes to the end.
C5_Witness ==
    \E w \in Writers, r \in Readers :
        /\ wpc[w] = "release" /\ wtxn[w].how = "committed" /\ wtxn[w].appends >= 2
        /\ GotBytes(r) /\ rtxn[r].from = 0 /\ rtxn[r].snap = wtxn[w].next
        /\ rgot[r].off <= wtxn[w].start
        /\ rgot[r].off + Len(rgot[r].data) = wtxn[w].next

C9_WaitFree ==
    /\ [](\A w \in Writers : wpc[w] = "idle" => ENABLED AppendTxn(w))
    /\ [][\A w \in Writers :
            (wpc[w] = "idle" /\ flag /\ wret'[w] # wret[w]) =>
                /\ wret'[w] = "absent"
                /\ wpc' = wpc
                /\ flag'
                /\ UNCHANGED <<file, len, wtxn, committed>>]_vars

\* C9 witness: a call was refused while the holder has appended bytes.
C9_Witness ==
    \E w, h \in Writers :
        /\ w # h /\ wret[w] = "absent" /\ wpc[w] = "idle"
        /\ flag /\ InWindow(h)

\* C10: of two threads calling append_txn exactly one receives a transaction;
\* the end of that transaction releases the flag, and a call made while the
\* flag is released succeeds.
C10_HandOver ==
    [][/\ \A w \in Writers :
             /\ (wpc[w] = "release" /\ wpc'[w] = "idle") => ~flag'
             /\ (wpc[w] = "idle" /\ ~flag /\ wret'[w] # wret[w]) =>
                    (wret'[w] \in {"some", "some2"} /\ wpc'[w] = "acquired" /\ flag')
       /\ \A a, b \in Writers :
             (wret'[a] \in {"some", "some2"} /\ wret'[b] \in {"some", "some2"}) => a = b
      ]_vars

\* C10 witness: a thread whose call was refused called again after the holder
\* released, and holds a transaction.
C10_Witness ==
    \E w \in Writers : wret[w] = "some2" /\ wpc[w] = "open"

\* The reader made a step: it began, read or ended a read transaction.
ReadStep(r) == rpc'[r] # rpc[r] \/ rtxn'[r] # rtxn[r] \/ rgot'[r] # rgot[r]

\* C35: reads do not depend on the writer flag and touch no storage state. In
\* every state, flag set or not, read_txn can be called and read and read_exact
\* can be called on an open read transaction; read_txn returns a transaction
\* iff offset < len and read_exact returns the bytes iff they remain in the
\* snapshot; and a step of a reader leaves flag, len, the file and every
\* writer as they are.
C35_ReadsIgnoreFlag ==
    /\ [](\A r \in Readers :
            /\ rpc[r] = "idle" => \A o \in 0..(MaxFile + 1) : ENABLED ReadTxn(r, o)
            /\ rpc[r] = "open" => /\ \A n \in 0..MaxBuf : ENABLED TxnReadExact(r, n)
                                  /\ \A n \in 0..MaxBuf : \E k \in 0..MaxBuf :
                                       ENABLED TxnRead(r, n, k))
    /\ [][\A r \in Readers :
            /\ \A o \in 0..(MaxFile + 1) :
                 ReadTxn(r, o) => ((rpc'[r] = "open") <=> (o < len))
            /\ \A n \in 0..MaxBuf :
                 TxnReadExact(r, n) =>
                   ((rgot'[r].kind = "exact") <=> (n <= Remaining(rtxn[r])))
            /\ ReadStep(r) => UNCHANGED <<file, len, flag, wpc, wtxn, wret>>]_vars

\* A writer has published and still holds the flag; a read transaction begun
\* at the new len, so after the publish, has read bytes of that commit.
C35_Witness ==
    \E w \in Writers, r \in Readers :
      /\ flag
      /\ wpc[w] = "release" /\ wtxn[w].how = "committed" /\ wtxn[w].start < len
      /\ rpc[r] = "open" /\ rtxn[r].begun = len
      /\ rgot[r].kind = "exact"
      /\ rgot[r].off + Len(rgot[r].data) > wtxn[w].start

\* ------------------------------------------------------------ claims on SpecPar
\* Every thread of the test has finished.
Joined == (\A w \in Writers : ppc[w] = "done") /\ (\A r \in Readers : qpc[r] = "done")

\* C7: every offset below the published len is already in the file with its
\* final content: an append's file write completes before the len store that
\* publishes it, so bytes below len are written, and never change afterwards.
C7_WrittenBeforePublished ==
    /\ [](/\ len <= Len(file)
          /\ \A w \in Writers : ppc[w] = "store" =>
                FileBytes(file, ploc[w].len, RecordSize) = Data(ploc[w].next_index)
          /\ FileBytes(file, 0, len) = ConcatData(len \div RecordSize))
    /\ [][\A i \in 1..len : i <= Len(file') /\ file'[i] = file[i]]_vars

\* C7 witness: a reader has observed a larger len and read the record under it
\* while a writer is halfway through writing the next record.
C7_Witness ==
    \E w \in Writers, r \in Readers :
        /\ ppc[w] = "write" /\ ploc[w].written > 0 /\ ploc[w].written < RecordSize
        /\ len > 0 /\ Len(file) > len
        /\ qloc[r].index > 0 /\ qloc[r].index * RecordSize = len

\* C8: a reader that obtains a full record at offset i * RECORD_SIZE gets
\* data[i]; after all threads finish the storage holds data[0] ++ data[1] ++ ...
\* in index order, nothing lost, duplicated or reordered.
C8_ParallelReadsAndWrites ==
    /\ \A r \in Readers : qloc[r].index > 0 => qloc[r].buf = Data(qloc[r].index - 1)
    /\ Joined =>
         /\ len = NRecords * RecordSize
         /\ Len(file) = len
         /\ FileBytes(file, 0, len) = ConcatData(NRecords)
    /\ main.pc # "join" => (main.pc = "read" /\ main.buf = ConcatData(NRecords))

\* C8 witness: all threads have finished, different writers having appended
\* records, and the final read_exact_at has returned.
C8_Witness ==
    /\ Joined /\ main.pc = "read"
    /\ \E a, b \in Writers : a # b /\ ploc[a].written > 0 /\ ploc[b].written > 0

\* ------------------------------------------------------------ claims on SpecLife
\* A call has returned and none is in progress.
Quiet == life = "open" /\ op.pc = "idle"

\* C11 as stated: in every reachable state of an open storage, the states
\* inside append, truncate and close included, the file length is >= len.
C11_FileCoversLen_AsStated ==
    life = "open" => Len(file) >= len

\* C11: in every reachable state of an open storage the file length is >= len,
\* inside append and close too; the one exception is inside truncate(n), between
\* its set_len and its len store, where the file length is n < len.
C11_FileCoversLen ==
    life = "open" =>
        IF op.pc = "set_store" THEN Len(file) = op.arg /\ op.arg < len
        ELSE Len(file) >= len

\* C11 witness: an append is halfway through its write: bytes are in the file
\* beyond len, after earlier appends were published.
C11_Witness ==
    /\ life = "open" /\ op.pc = "write" /\ op.written > 0
    /\ len > 0 /\ Len(file) > len

\* C12: on an open storage len never decreases, except in the len store of a
\* truncate(n) with n < len; append, reads and sync never lower it.
C12_LenOnlyTruncateLowers ==
    [][(life = "open" /\ life' = "open") =>
          /\ len' < len =>
                (op.name = "truncate" /\ op.pc = "set_store" /\ op.arg < len /\ len' = op.arg)
          /\ (op.name = "append" \/ res'.name \in {"append", "read_at", "read_exact_at", "sync"})
                => len' >= len
      ]_vars

\* C12 witness: after appends raised len, a truncate has lowered it to a
\* smaller, non-zero length.
C12_Witness ==
    /\ Quiet /\ res.name = "truncate" /\ res.ret = "ok"
    /\ len > 0 /\ len < res.pre /\ len = res.want

\* C13: after close() has returned Ok the file length equals the committed len:
\* a tail left beyond len by a failed append has been cut away.
C13_CloseReconciles ==
    (life = "closed" /\ res.name = "close" /\ res.ret = "ok") => Len(file) = len

\* C14: close / reopen round trip. When every append of the handle succeeded,
\* open() after close() yields len = the number of bytes committed and the
\* committed content at every offset; whenever a call has returned, len and the
\* bytes below it are what was committed, so appends after the reopen continue
\* at that len.
C14_CloseOpenRoundTrip ==
    /\ [][(life = "closed" /\ life' = "open" /\ ~hist.failed) =>
              (len' = Len(expect) /\ FileBytes(file', 0, len') = expect /\ expect' = expect)
         ]_vars
    /\ [](Quiet => (len = Len(expect) /\ FileBytes(file, 0, len) = expect))

\* C14 witness: a storage reopened after a close held committed bytes, nothing
\* more, and an append made after the reopen has been published behind them.
C14_Witness ==
    /\ Quiet /\ hist.via = "closed" /\ hist.adopted = 0
    /\ res.name = "append" /\ res.ret = "ok"
    /\ res.pre > 0 /\ len > res.pre

\* A read call returns in this step.
ReadReturns == res' # res /\ res'.name \in {"read_at", "read_exact_at"}

\* C15: after a crash that left bytes of an unfinished append in the file,
\* open() sets len to the whole file size, and those bytes are read like
\* committed content: a read_exact_at that ends at or below len is never cut
\* short, and returns the bytes of the file.
C15_CrashTailAdopted ==
    /\ [][(life = "crashed" /\ life' = "open") => (len' = Len(file) /\ file' = file)]_vars
    /\ [][(life = "open" /\ hist.via = "crashed" /\ ReadReturns) =>
              /\ (res'.name = "read_exact_at" /\ res'.offset + res'.want <= len)
                     => res'.ret \in {"ok", "err"}
              /\ res'.ret = "ok" =>
                     res'.data = FileBytes(file, res'.offset, Len(res'.data))
         ]_vars

\* C15 witness: the process crashed with bytes written beyond len, the storage
\* was opened again, and read_exact_at has returned exactly those bytes.
C15_Witness ==
    /\ Quiet /\ hist.via = "crashed" /\ hist.adopted > 0
    /\ res.name = "read_exact_at" /\ res.ret = "ok" /\ Len(res.data) > 0
    /\ res.pre = len /\ res.offset + Len(res.data) = len
    /\ res.offset = len - hist.adopted /\ res.offset > 0

\* The last call that returned was a read, and it did not fail in the file system.
ReadDone == res.name \in {"read_at", "read_exact_at"} /\ res.ret # "err"

\* C16: a read begun at an offset >= len yields nothing, however far past the
\* end the offset is; a read of a non-empty buffer begun below len is given the
\* range that starts at the offset and is bounded by the len loaded at the call.
C16_ReadPastEndYieldsNothing ==
    ReadDone =>
        /\ res.offset >= res.pre => (res.dst = 0 /\ res.data = <<>>)
        /\ (res.offset < res.pre /\ res.want > 0) =>
              (res.dst > 0 /\ res.dst = Min(res.want, res.pre - res.offset))
        /\ res.dst = 0 <=> (res.offset >= res.pre \/ res.want = 0)

\* C16 witness: a read of a non-empty buffer far past the end of a non-empty
\* storage returned nothing.
C16_Witness ==
    /\ ReadDone /\ res.name = "read_at" /\ res.want > 0
    /\ res.pre > 0 /\ res.offset >= res.pre + 2
    /\ res.dst = 0 /\ res.data = <<>>

\* C17: read_at into a buffer of `want` bytes at `offset` returns n bytes with
\* 0 <= n <= min(want, len - offset), which are the bytes of the file (the
\* committed bytes) at [offset, offset + n); the caller's cursor advances by
\* exactly n, and reading on until the buffer is full gives the committed content.
C17_ReadReturnsPrefixOfRange ==
    /\ [][(ReadReturns /\ res'.name = "read_at" /\ res'.ret = "ok") =>
              LET n == Len(res'.data)
              IN /\ n <= Min(res'.want, SaturatingSub(len, res'.offset))
                 /\ \A i \in 1..n : /\ res'.data[i] = file[res'.offset + i]
                                    /\ res'.data[i] = expect[res'.offset + i]
         ]_vars
    /\ [][(cur.on /\ cur'.on /\ cur' # cur) =>
              /\ cur'.offset = cur.offset + Len(res'.data)
              /\ cur'.left = cur.left - Len(res'.data)
              /\ cur'.acc = cur.acc \o res'.data
         ]_vars
    /\ [](cur.on => /\ cur.acc = SubSeq(expect, 1, cur.offset)
                    /\ cur.offset + cur.left = len
                    /\ cur.left = 0 => cur.acc = expect)

\* C17 witness: the loop has filled its buffer with the whole storage, and its
\* last read_at, at an offset above 0, returned less than the buffer holds.
C17_Witness ==
    /\ cur.on /\ cur.left = 0 /\ Len(cur.acc) >= 2
    /\ res.name = "read_at" /\ res.ret = "ok" /\ res.offset > 0
    /\ Len(res.data) >= 1 /\ res.offset + Len(res.data) = len

\* C18: read_exact_at into a buffer of `want` bytes fails with UnexpectedEof if
\* and only if fewer than `want` bytes lie between the offset and len (an empty
\* buffer always succeeds); a failure returns no bytes and changes nothing; a
\* success returns exactly `want` bytes, those at [offset, offset + want).
C18_ReadExactAllOrEof ==
    [][(ReadReturns /\ res'.name = "read_exact_at") =>
          /\ res'.ret = "eof" <=> SaturatingSub(len, res'.offset) < res'.want
          /\ res'.want = 0 => res'.ret = "ok"
          /\ res'.ret = "ok" =>
                /\ Len(res'.data) = res'.want
                /\ \A i \in 1..res'.want : res'.data[i] = file[res'.offset + i]
          /\ res'.ret # "ok" => res'.data = <<>>
          /\ UNCHANGED <<file, len, expect, cur>>
      ]_vars

\* C18 witness: read_exact_at asked for more bytes than remained below len, some
\* did remain, and it returned UnexpectedEof.
C18_Witness ==
    /\ res.name = "read_exact_at" /\ res.ret = "eof"
    /\ res.offset < res.pre /\ res.want > res.pre - res.offset /\ res.dst > 0

\* C19: truncate(n) with n >= len returns Ok and changes neither len nor the
\* file; with n < len it sets the file length and len to n and leaves the bytes
\* [0, n) as they were.
C19_Truncate ==
    [][/\ (op.pc = "idle" /\ res' # res /\ res'.name = "truncate") =>
              /\ res'.want >= len /\ res'.ret = "ok"
              /\ UNCHANGED <<file, len, expect>>
       /\ (op.pc = "idle" /\ op'.name = "truncate") =>
              (op'.arg < len /\ UNCHANGED <<file, len, expect>>)
       /\ (op.pc = "set_store" /\ res'.name = "truncate") =>
              /\ res'.ret = "ok" /\ res'.want < res'.pre /\ res'.pre = len
              /\ len' = res'.want /\ Len(file') = res'.want
              /\ \A i \in 1..res'.want : file'[i] = expect[i]
              /\ expect' = file'
      ]_vars

\* C19 witness: a truncate to a smaller, non-zero length has returned: the file
\* and len have that length and the bytes kept are the committed ones.
C19_Witness ==
    /\ Quiet /\ res.name = "truncate" /\ res.ret = "ok"
    /\ res.want > 0 /\ res.want < res.pre
    /\ len = res.want /\ Len(file) = res.want /\ file = expect

\* C20: when the file write of append, sync, or the set_len of truncate fails,
\* the call returns the error and len is what it was before the call, never
\* advanced and never reduced.
C20_IoErrorKeepsLen ==
    /\ [][(res' # res /\ res'.ret = "err") =>
              /\ len' = len /\ len' = res'.pre
              /\ expect' = expect
              /\ op'.pc = "idle"
         ]_vars
    /\ [](/\ op.name = "append" => len = op.len
          /\ (Quiet /\ res.ret = "err") => (len = res.pre /\ len = Len(expect)))

\* C20 witness: an append failed after part of its bytes were written: the
\* error was returned, the bytes are in the file and len did not move.
C20_Witness ==
    /\ Quiet /\ res.name = "append" /\ res.ret = "err"
    /\ len > 0 /\ len = res.pre /\ Len(file) > len

\* A call of the named constructor or of destroy returns in this step.
CallReturns(name) == res' # res /\ res'.name = name

\* C21: create(path) succeeds, with len = 0 and an empty file, exactly when no
\* file is at the path, and otherwise fails and leaves the file that is there
\* untouched; open(path) fails exactly when no file is at the path; after a
\* destroy() that returned Ok no file is at the path, and create is then possible
\* and yields an empty storage.
C21_PathLifecycle ==
    /\ [][CallReturns("create") =>
            IF life = "gone"
              THEN res'.ret = "ok" /\ life' = "open" /\ len' = 0 /\ file' = <<>>
              ELSE res'.ret = "err" /\ life' = life /\ file' = file /\ len' = len]_vars
    /\ [][CallReturns("open") => (res'.ret = "err" <=> life = "gone")]_vars
    /\ [][(CallReturns("destroy") /\ res'.ret = "ok") =>
            (life' = "gone" /\ file' = <<>>)]_vars
    /\ [](life = "gone" => ENABLED (S_Create /\ res'.ret = "ok"))

\* A storage was created, empty, at the path a destroy had freed.
C21_Witness ==
    /\ Quiet /\ hist.via = "gone"
    /\ res.name = "create" /\ res.ret = "ok" /\ len = 0 /\ file = <<>>

\* ------------------------------------------------------------ claims on SpecGuard
\* Caller w is inside Storage::append, between the load of len and its store.
G_InAppend(w) == gpc[w] \in G_Region

\* Two calls of Storage::append overlap.
G_Overlap == \E w1, w2 \in Writers : w1 # w2 /\ G_InAppend(w1) /\ G_InAppend(w2)

\* A step of Storage::append keeps to itself: bytes are written by a caller that
\* is alone in append and at the len that is still published, so on no bytes of
\* another append; len changes only by the store of a caller that is alone in
\* append, to the len it loaded plus its buffer.
G_SoleWriter ==
    /\ \A w \in Writers :
         gloc'[w].written > gloc[w].written =>
           (gloc[w].len = len /\ \A v \in Writers \ {w} : ~G_InAppend(v))
    /\ len' # len =>
         \E w \in Writers :
           /\ gpc[w] = "store" /\ gpc'[w] = "unlock"
           /\ \A v \in Writers \ {w} : ~G_InAppend(v)
           /\ len' = len + Len(gloc[w].buf)

\* C22 as stated: whatever guards the callers of Storage::append hold, no two
\* calls overlap between the load of len and the store of the new len, no append
\* writes over another's bytes, and len is stored only by the sole current writer.
C22_AppendsExclusive_AsStated == [](~G_Overlap) /\ [][G_SoleWriter]_vars

\* C22: as long as every guard handed to Storage::append on the storage was taken
\* by its caller from one and the same MutLock, no two calls overlap between the
\* load of len and the store of the new len, no append writes over another's
\* bytes, and len is stored only by the sole current writer.
C22_AppendsExclusive ==
    /\ [](Cardinality(used) <= 1 => ~G_Overlap)
    /\ [][Cardinality(used') <= 1 => G_SoleWriter]_vars

\* One lock in use: a caller is about to store the len of its second append
\* while the other caller is kept out.
C22_Witness ==
    /\ Cardinality(used) = 1
    /\ len > 0
    /\ \E w \in Writers :
         /\ gpc[w] = "store"
         /\ \A v \in Writers \ {w} : gpc[v] = "lock"

\* ------------------------------------------------------------ claims on SpecBuf
\* C23: LogBuf::append(log) returns true exactly when the buffer's last sequence
\* number is absent or log.seq_no is strictly greater than it; when it returns
\* true, count is one more, last() is log.seq_no and the encoding of the log is
\* what was added at the end of the bytes.
C23_AppendAccepts ==
    [][\A log \in Logs :
         (lres'.name = "append" /\ B_Append(log)) =>
           /\ lres'.ret = (lbuf.last = None \/ log.seq_no > lbuf.last[1])
           /\ lres'.ret =>
                /\ lbuf'.count = lbuf.count + 1
                /\ lbuf'.last = Some(log.seq_no)
                /\ lbuf'.memory = lbuf.memory \o LogWrite(log)
                /\ IterLogs(lbuf'.memory) = Append(IterLogs(lbuf.memory), log)]_vars

\* A second log, of a greater sequence number, was accepted.
C23_Witness ==
    /\ lres.name = "append" /\ lres.ret
    /\ lbuf.count = 2 /\ hst.pure
    /\ lbuf.last = Some(hst.recs[2].seq_no)

\* C24: a LogBuf::append that returns false (seq_no <= last) leaves the buffer
\* as it was: the bytes and their length, count, first() and last().
C24_RejectedAppendKeepsBuffer ==
    [][\A log \in Logs :
         (lres'.name = "append" /\ ~lres'.ret /\ B_Append(log)) =>
           /\ lbuf.last # None /\ log.seq_no <= lbuf.last[1]
           /\ lbuf'.memory = lbuf.memory
           /\ BufLen(lbuf') = BufLen(lbuf)
           /\ lbuf'.count = lbuf.count
           /\ First(lbuf') = First(lbuf)
           /\ lbuf'.last = lbuf.last]_vars

\* An append was rejected by a buffer that holds a log.
C24_Witness ==
    /\ lres.name = "append" /\ ~lres.ret
    /\ lbuf.count = 1 /\ hst.pure
    /\ IterLogs(lbuf.memory) = hst.recs

\* C25: after any LogBuf operation (append, clear, reserve, shrink_to, bytes
\* copied into bytes_mut() and reinitialize) the bytes decode to exactly count()
\* complete logs with nothing left over, in strictly increasing order of
\* sequence number.
C25_BytesAreCountIncreasingLogs ==
    LET logs == IterLogs(lbuf.memory)
    IN /\ Len(logs) = lbuf.count
       /\ IterRest(lbuf.memory) = <<>>
       /\ \A i \in 1..(Len(logs) - 1) : logs[i].seq_no < logs[i + 1].seq_no

\* C26: for any buffer, an empty buffer that takes a copy of its bytes() through
\* bytes_mut() and is reinitialized has the same count(), first(), last() and
\* len().
C26_CloneViaBytes ==
    lres.name = "clone" =>
      /\ lres.out.count = lbuf.count
      /\ First(lres.out) = First(lbuf)
      /\ lres.out.last = lbuf.last
      /\ BufLen(lres.out) = BufLen(lbuf)

\* A buffer built by two appends was copied.
C26_Witness ==
    /\ lres.name = "clone"
    /\ hst.pure /\ Len(hst.recs) = 2
    /\ lres.out.count = 2

\* C27: clear() leaves the empty state, whatever the buffer held: count() = 0,
\* len() = 0, first() and last() absent; the append that follows is accepted
\* whatever its sequence number.
C27_ClearResets ==
    /\ [][B_Clear =>
            /\ lbuf'.count = 0
            /\ BufLen(lbuf') = 0
            /\ First(lbuf') = None
            /\ lbuf'.last = None]_vars
    /\ [][\A log \in Logs : (lres.name = "clear" /\ B_Append(log)) => lres'.ret]_vars

\* After a clear, a log was accepted whose sequence number is below the last
\* one the buffer held before.
C27_Witness ==
    /\ lres.name = "append" /\ lres.ret
    /\ lbuf.count = 1
    /\ hst.was # None /\ lbuf.last[1] < hst.was[1]

\* C28: on a buffer built by the accepted appends r1..rn, an iterator returns
\* r1..rn in that order and then None; a fresh iter() starts at r1 again;
\* first() is r1.seq_no and last() is rn.seq_no; iterating leaves the buffer as
\* it is.
C28_IterYieldsAppended ==
    /\ [](hst.pure =>
            /\ it.on => /\ Len(it.out) <= Len(hst.recs)
                        /\ it.out = SubSeq(hst.recs, 1, Len(it.out))
                        /\ it.ended => it.out = hst.recs
                        /\ it.out = hst.recs => LogRead(it.rest) = None
            /\ First(lbuf) = IF Len(hst.recs) = 0 THEN None
                             ELSE Some(hst.recs[1].seq_no)
            /\ lbuf.last = IF Len(hst.recs) = 0 THEN None
                           ELSE Some(hst.recs[Len(hst.recs)].seq_no))
    /\ [][B_Iter => (it'.out = <<>> /\ it'.rest = lbuf.memory /\ ~it'.ended)]_vars
    /\ [][it' # it => lbuf' = lbuf]_vars

\* An iterator returned the two logs appended and then None.
C28_Witness ==
    /\ hst.pure /\ Len(hst.recs) = 2
    /\ it.on /\ it.ended /\ it.out = hst.recs

\* C36: reinitialize on bytes that are k complete logs followed by a log cut
\* short (before its sequence number, its size or its payload ends; no byte at
\* all included) sets count to k and last to the sequence number of the k-th
\* log, and cuts the bytes off at the end of the k-th log; with k = 0 the
\* buffer is empty and last is absent.
C36_ReinitializeTruncates ==
    lres.name = "reinitialize" =>
      LET region == lres.out.memory
      IN \A l \in Logs :
           LET bytes == LogWrite(l)
           IN \A c \in BlitCuts(Len(bytes)) \ {Len(bytes)} :
                LET n == Len(region) - c
                    complete == SubSeq(region, 1, n)
                    logs == IterLogs(complete)
                    k == Len(logs)
                IN (/\ n >= 0
                    /\ SubSeq(region, n + 1, Len(region)) = SubSeq(bytes, 1, c)
                    /\ IterRest(complete) = <<>>) =>
                      /\ lbuf.count = k
                      /\ lbuf.memory = complete
                      /\ lbuf.last = IF k = 0 THEN None ELSE Some(logs[k].seq_no)
                      /\ k = 0 => lbuf.memory = <<>>

\* One log is left of a buffer that held it and, behind it, the whole header of
\* another log without its payload.
C36_Witness ==
    /\ lres.name = "reinitialize"
    /\ lbuf.count = 1
    /\ Len(lres.out.memory) = Len(lbuf.memory) + SeqNoBytes + SizeBytes

\* ------------------------------------------------------------ claims on SpecCodec
\* The input of the last Log::read starts with all the bytes of the log.
StartsWith(log) ==
    /\ Len(rd.in) >= Len(LogWrite(log))
    /\ SubSeq(rd.in, 1, Len(LogWrite(log))) = LogWrite(log)

\* The input of the last Log::read is the bytes of the log with the end cut off.
CutShort(log) ==
    /\ Len(rd.in) < Len(LogWrite(log))
    /\ rd.in = SubSeq(LogWrite(log), 1, Len(rd.in))

\* C29: for every sequence number s, payload p and bytes tail, Log::read on the
\* bytes Log::write made of (s, p) followed by tail returns the log (s, p) and
\* tail as the remaining bytes; on the bytes of several logs written one after
\* the other, successive reads return the logs one by one, in the order written.
C29_CodecRoundTrip ==
    rd.on =>
      /\ \A log \in WideLogs :
           StartsWith(log) =>
             rd.ret = Some([log |-> log,
                            rest |-> SubSeq(rd.in, Len(LogWrite(log)) + 1, Len(rd.in))])
      /\ (wr.cut = 0 /\ rd.n < Len(wr.logs)) =>
           (rd.ret # None /\ rd.ret[1].log = wr.logs[rd.n + 1])
      /\ (wr.cut = 0 /\ rd.n = Len(wr.logs)) => (rd.in = <<>> /\ rd.ret = None)

\* The second of two logs was read back, the first with a sequence number of
\* two significant bytes and a payload.
C29_Witness ==
    /\ rd.on /\ rd.n = 1 /\ wr.cut = 0 /\ Len(wr.logs) = 2
    /\ rd.ret # None /\ rd.ret[1].log = wr.logs[2] /\ rd.ret[1].rest = <<>>
    /\ wr.logs[1].seq_no > 255 /\ Len(wr.logs[1].data) > 0

\* C30: the bytes of a log are 16 and its payload long, and Log::read on any of
\* their strict prefixes, the empty one included, returns None.
C30_TruncatedReadsNone ==
    rd.on =>
      \A log \in WideLogs :
        /\ Len(LogWrite(log)) = 16 + Len(log.data)
        /\ CutShort(log) => rd.ret = None

\* A log was read whose header is whole and whose payload is a byte short.
C30_Witness ==
    /\ rd.on /\ rd.n = 0 /\ rd.ret = None
    /\ Len(wr.logs) = 1 /\ wr.cut = 1
    /\ Len(rd.in) >= 16

\* ------------------------------------------------------------ claims on SpecEnd
\* The writer is inside commit, abort or the destructor of its transaction.
E_Ending(w) == wpc[w] \in {"sync", "publish", "rollback", "release"}

\* C31: whichever way an append transaction ends (commit, commit of nothing,
\* commit failing in sync_data, abort, abort failing in set_len, drop), the
\* writer flag is released: a writer inside commit, abort or the destructor
\* leads to that writer idle and the flag clear, and the flag is never set
\* while no writer has a transaction.
C31_EveryEndReleases ==
    /\ \A w \in Writers : E_Ending(w) ~> (wpc[w] = "idle" /\ ~flag)
    /\ [](flag => \E w \in Writers : wpc[w] # "idle")

\* The flag is clear after a transaction ended in a failing abort.
C31_Witness ==
    /\ ~flag
    /\ \A w \in Writers : wpc[w] = "idle"
    /\ ended = "abort_failed"

\* The writers that hold a guard: from a successful append_txn to the drop.
E_Live == {w \in Writers : wpc[w] # "idle"}

\* C33: the flag goes from clear to set only in a try_acquire whose swap
\* returned false, and from set to clear only in the drop of the guard of the
\* writer that acquired it, which has no guard afterwards; in every state the
\* flag is set iff exactly one transaction is live, and never more than one is.
C33_FlagStateMachine ==
    /\ [](Cardinality(E_Live) <= 1 /\ (flag <=> Cardinality(E_Live) = 1))
    /\ [][/\ (~flag /\ flag') =>
                \E w \in Writers : /\ AppendTxn(w)
                                   /\ TryAcquireOk(flag)
                                   /\ E_Live' = {w}
          /\ (flag /\ ~flag') =>
                \E w \in Writers : /\ E_Release(w)
                                   /\ E_Live = {w}
                                   /\ E_Live' = {}]_vars

\* A second transaction is live, and a call of the other writer was refused,
\* after the guard of a first one was dropped.
C33_Witness ==
    /\ flag
    /\ ended # "none"
    /\ \E w, v \in Writers :
         /\ wpc[w] = "open" /\ wtxn[w].next > wtxn[w].start
         /\ wpc[v] = "idle" /\ wret[v] = "absent"

\* C32: in abort and in the destructor the flag is released only after the
\* rollback's set_len has returned. While a rollback is pending the flag is set
\* and no other writer has a transaction; the flag turns clear only in the step
\* of a writer whose rollback is over; so the bytes a live transaction wrote
\* are in the file at [start, next), no truncation of another one cuts them.
C32_ReleaseAfterRollback ==
    /\ [](\A w \in Writers : wpc[w] = "rollback" => (flag /\ E_Live = {w}))
    /\ [](\A w \in Writers :
            wpc[w] = "open" =>
              FileBytes(file, wtxn[w].start, wtxn[w].next - wtxn[w].start) = wtxn[w].wrote)
    /\ [][(flag /\ ~flag') =>
            \E w \in Writers : wpc[w] = "release" /\ wpc'[w] = "idle"]_vars

\* The destructor of a transaction has cut its bytes off the file and still
\* holds the flag; a call of the other writer was refused.
C32_Witness ==
    \E w, v \in Writers :
      /\ wpc[w] = "release" /\ wtxn[w].how = "dropped"
      /\ wtxn[w].next > wtxn[w].start /\ Len(file) = wtxn[w].start
      /\ flag
      /\ wret[v] = "absent"

\* The first n bytes of the file are as they were at the last sync_data.
E_Durable(n) ==
    /\ Len(durable) >= n
    /\ SubSeq(durable, 1, n) = SubSeq(file, 1, n)

C39_AppendOnlyContent ==
    /\ [][\A i \in 1..len :
            \/ (len' >= i /\ Len(file') >= i /\ file'[i] = file[i])
            \/ \E n \in 0..(i - 1) : E_Truncate(n, FALSE)]_vars
    /\ [](\A w \in Writers : wpc[w] \in {"open", "rollback"} => wtxn[w].start >= len)

\* A byte was committed, a later transaction was dropped, and the one after it
\* has written behind the committed byte.
C39_Witness ==
    /\ len = 1
    /\ ended = "dropped"
    /\ \E w \in Writers : wpc[w] = "open" /\ wtxn[w].start = 1 /\ wtxn[w].next = 2

\* ------------------------------------------------------------ claims on SpecSpinFair
\* The workers whose push is complete.
Pushed == {t \in Threads : spc[t] \in {"drop", "done"}}

\* C37: with MAX_THREADS threads each doing spin_acquire, one DATA.push and the
\* drop of the guard, no two threads are between acquire and drop at once, DATA
\* always holds exactly the values of the pushes made so far (none lost, none
\* twice), every thread that is scheduled fairly gets the lock and ends, and
\* the try_acquire that main makes after joining them returns a guard (the
\* test's expect and its assert_eq never panic, and the test passes).
C37_SpinLockExcludes ==
    /\ [](Cardinality(InCritical) <= 1)
    /\ [](/\ Len(DATA) = Cardinality(Pushed)
          /\ {DATA[i] : i \in 1..Len(DATA)} = Pushed)
    /\ [](LOCK <=> (InCritical # {} \/ smain = "sort"))
    /\ \A t \in Threads : <>(spc[t] = "done")
    /\ [][M_TryAcquire => (~LOCK /\ LOCK' /\ smain' = "sort")]_vars
    /\ [](smain \notin {"panicked", "failed"})
    /\ <>(smain = "passed")

\* The test has passed, after some worker found the lock taken and had to spin.
C37_Witness ==
    /\ smain = "passed"
    /\ spun
    /\ DATA = [i \in 1..MAX_THREADS |-> i - 1]
    /\ ~LOCK

\* ------------------------------------------------------------ claims on SpecVec
\* C38: the length of an AtomicVec only increases and never exceeds the
\* capacity; whenever the length is n, every slot i < n holds the element of
\* the i-th successful push, and stays so, so that a reader which loaded
\* length n gets at any index i < n that element (and None at i >= n); a push
\* that returns Conflict or Overflow changes neither the length nor a slot,
\* and holds no guard once it has returned: the flag is set exactly while some
\* push is between its try_acquire and its return.
C38_AtomicVecPublishes ==
    /\ [](vlen <= VecCap /\ vlen = Len(pushed))
    /\ [][vlen' >= vlen]_vars
    /\ [](\A i \in 0..(vlen - 1) : vmem[i] = pushed[i + 1])
    /\ [][\A i \in 0..(vlen - 1) : vmem'[i] = vmem[i]]_vars
    /\ [](slice.pc = "idle" /\ slice.ret # None =>
            /\ slice.idx < slice.len
            /\ slice.len <= vlen
            /\ slice.ret = Some(pushed[slice.idx + 1]))
    /\ [](slice.pc = "idle" /\ slice.ret = None => slice.idx >= slice.len)
    /\ [][\A p \in Pushers : (push[p].pc = "load" /\ push'[p].ret = "overflow") =>
                (vlen = VecCap /\ UNCHANGED <<vlen, vmem, vlock>>)]_vars
    /\ [][(\E p \in Pushers : push[p].pc = "return" /\ push[p].ret = "overflow") =>
                UNCHANGED <<vlen, vmem>>]_vars
    /\ [][\A p \in Pushers : (V_Return(p) /\ push[p].ret = "overflow") =>
                (~vlock' /\ VecGuards' = {})]_vars
    /\ [][\A p \in Pushers, elem \in Elems :
            (V_TryAcquire(p, elem) /\ push'[p].ret = "conflict") =>
                (VecGuards # {} /\ UNCHANGED <<vlock, vlen, vmem>>)]_vars
    /\ [](vlock <=> VecGuards # {})
    /\ [](Cardinality(VecGuards) <= 1)

\* The vector is full; one push has returned Overflow, another Conflict while
\* the first held the lock, and the reader, having loaded the full length, got
\* the last element.
C38_Witness ==
    /\ vlen = VecCap
    /\ \E p, q \in Pushers : push[p].ret = "overflow" /\ push[q].ret = "conflict"
    /\ ~vlock
    /\ slice.pc = "idle"
    /\ slice.len = VecCap
    /\ slice.idx = VecCap - 1
    /\ slice.ret = Some(pushed[VecCap])
    /\ pushed[1] # pushed[VecCap]

====
